---- MODULE Spec2Model ----
(***************************************************************************)
(* A model of two parts of ALPACA:                                         *)
(*   - InterfaceBlock (src/src/interface_block.cpp): the per-block storage *)
(*     of the level-set description, the interface states and the          *)
(*     interface parameters, its two constructors and its accessors;       *)
(*   - WENO9::ApplyImplementation                                          *)
(*     (src/src/stencils/spatial_reconstruction_stencils/weno9.cpp);       *)
(*   - XmlMultiResolutionReader (src/src/input_output/input_reader/        *)
(*     multi_resolution_reader/xml_multi_resolution_reader.{h,cpp}).       *)
(*                                                                         *)
(* A double is modelled by an exact number: an integer in the block's      *)
(* buffers (1.0 is 1, 0.0 is 0), an exact rational in the stencil.         *)
(* Floating-point rounding is not modelled.                                *)
(***************************************************************************)
EXTENDS Integers, Sequences, FiniteSets, TLC

VARIABLES
    PERFORMANCE,                   \* the build: TRUE iff PERFORMANCE is defined
    InterfaceParameterModelActive, \* CC::InterfaceParameterModelActive()
    pc,                            \* "raw" (storage allocated, constructor not run) | "constructed"
    block,                         \* the InterfaceBlock's members
    ctor,                          \* the constructor that ran, with its argument
    written,                       \* the targets the constructor handed to BufferOperations
    last,                          \* the last accessor call and what it returned
    lastWrite,                     \* the last write an external solver made through an accessor
    nwrites,                       \* the number of external writes so far
    window,                        \* the sample window handed to the WENO9 kernel
    properties,                    \* the evaluation pair <<offset, stride>> handed to it
    spacing,                       \* the cell size handed to it
    kernel_pc,                     \* "idle" | "called" | "returned"
    face,                          \* what the kernel returned
    xml_input_file_,               \* the input document: what the nodes the reader asks for hold
    reading,                       \* the last read operation of the reader and what it returned
    field,                         \* a field buffer threads slice their windows from
    thread_pc,                     \* per thread: "idle" | "called" | "sampled" | "returned"
    thread_args,                   \* per thread: where its window starts, and its evaluation pair
    scratch,                       \* the storage of the invocations' automatic variables v1 .. v9
    thread_result,                 \* per thread: what its invocation returned
    calls                          \* per thread: the invocations it has made

blockVars == <<PERFORMANCE, InterfaceParameterModelActive, pc, block, ctor, written,
               last, lastWrite, nwrites>>

kernelVars == <<window, properties, spacing, kernel_pc, face>>

readerVars == <<xml_input_file_, reading>>

threadVars == <<field, thread_pc, thread_args, scratch, thread_result, calls>>

(***************************************************************************)
(* Bounds of the model.                                                    *)
(***************************************************************************)
NumCells == 2       \* cells of one buffer (CC::TCX() * CC::TCY() * CC::TCZ() in the code)
MaxVal == 1         \* buffer values range over -MaxVal .. MaxVal
MaxWrites == 2      \* external writes followed after construction
MaxFieldIndex == 2  \* the unsigned field_index arguments tried: 0 .. MaxFieldIndex
MaxIntercept == 1   \* windows a + b*j + bump: a in 0 .. MaxIntercept
MaxSlope == 1       \* b in -MaxSlope .. MaxSlope
MaxBump == 1        \* one sample is moved off the line by 0 .. MaxBump
MaxNode == 1        \* the numbers in the input document: -MaxNode .. 1
NumThreads == 2     \* threads that call the kernel concurrently
MaxCalls == 2       \* invocations of the kernel by one thread
MaxStart == 1       \* windows start at index 0 .. MaxStart of the shared field buffer

Cells == 1..NumCells
Vals == (0 - MaxVal)..MaxVal

(***************************************************************************)
(* The enumerations the code names.                                        *)
(***************************************************************************)
InterfaceDescription == {"Levelset", "VolumeFraction"}
InterfaceState == {"Velocity", "PressurePositive", "PressureNegative"}
InterfaceParameter == {"SurfaceTensionCoefficient"}
InterfaceDescriptionBufferType == {"Base", "RightHandSide", "Reinitialized", "Initial"}
InterfaceFieldType == {"Description", "Parameters", "States"}
InterfaceBlockBufferType ==
    {"LevelsetBase", "VolumeFractionBase",
     "LevelsetRightHandSide", "VolumeFractionRightHandSide",
     "LevelsetReinitialized", "VolumeFractionReinitialized",
     "InterfaceStateVelocity", "InterfaceStatePressurePositive",
     "InterfaceStatePressureNegative",
     "InterfaceParameterSurfaceTensionCoefficient"}
\* A value of an enumeration type that is none of its enumerators (a cast integer).
OutOfRange == "OutOfRange"

\* The position of an enumerator in the array that holds its buffer.
FieldIndex(e) ==
    CASE e = "Levelset" -> 0
      [] e = "VolumeFraction" -> 1
      [] e = "Velocity" -> 0
      [] e = "PressurePositive" -> 1
      [] e = "PressureNegative" -> 2
      [] e = "SurfaceTensionCoefficient" -> 0

\* The number of buffers a set holds; the parameter set holds none when the
\* interface-parameter model is not active.
NumberOfFields(set) ==
    CASE set \in {"base_", "right_hand_side_", "reinitialized_", "initial_"} -> 2
      [] set = "states_" -> 3
      [] set = "parameters_" -> IF InterfaceParameterModelActive THEN 1 ELSE 0

MemberNames == {"base_", "right_hand_side_", "reinitialized_", "initial_",
                "states_", "parameters_"}

(***************************************************************************)
(* References.  An accessor returns a reference to one buffer, a reference *)
(* to a whole set of buffers, or throws.                                   *)
(***************************************************************************)
BufferRef(set, index) == [kind |-> "buffer", set |-> set, index |-> index]
SetRef(set) == [kind |-> "set", set |-> set]
Throw(what) == [kind |-> "throw", what |-> what]

\* set[index]: the subscript of a buffer set, by position.
Subscript(setref, index) == BufferRef(setref.set, index)
\* set[enumerator]: the subscript of a buffer set, by enumerator.
SubscriptEnum(setref, e) == Subscript(setref, FieldIndex(e))

\* Whether a reference denotes storage the block owns.
Exists(blk, ref) ==
    /\ ref.kind \in {"buffer", "set"}
    /\ ref.kind = "buffer" => ref.index \in DOMAIN blk[ref.set]

(***************************************************************************)
(* BufferOperations (utilities/buffer_operations.h): fill or copy whole    *)
(* buffers.  blk is the block the target reference points into.            *)
(***************************************************************************)
SetSingleBuffer(blk, target, value) ==
    [blk EXCEPT ![target.set][target.index] = [c \in Cells |-> value]]

CopySingleBuffer(blk, source, target) ==
    [blk EXCEPT ![target.set][target.index] = [c \in Cells |-> source[c]]]

SetFieldBuffer(blk, target, value) ==
    [blk EXCEPT ![target.set] =
        [i \in DOMAIN blk[target.set] |-> [c \in Cells |-> value]]]

\* One statement of a constructor body, and a body run from its first
\* statement to its last.
Statement(blk, stmt) ==
    CASE stmt.op = "SetSingleBuffer" -> SetSingleBuffer(blk, stmt.target, stmt.value)
      [] stmt.op = "CopySingleBuffer" -> CopySingleBuffer(blk, stmt.source, stmt.target)
      [] stmt.op = "SetFieldBuffer" -> SetFieldBuffer(blk, stmt.target, stmt.value)

RECURSIVE Execute(_, _)
Execute(blk, stmts) ==
    IF stmts = << >> THEN blk
    ELSE Execute(Statement(blk, Head(stmts)), Tail(stmts))

(***************************************************************************)
(* The accessors.  GetXBuffer(d) is the overload with an argument,         *)
(* GetXBufferSet the overload without, GetInterfaceDescriptionBufferT the  *)
(* template specialisations.                                               *)
(***************************************************************************)
GetBaseBufferSet == SetRef("base_")
GetRightHandSideBufferSet == SetRef("right_hand_side_")
GetReinitializedBufferSet == SetRef("reinitialized_")
GetInitialBufferSet == SetRef("initial_")
GetInterfaceStateBufferSet == SetRef("states_")
GetInterfaceParameterBufferSet == SetRef("parameters_")

GetBaseBuffer(interface_description) ==
    SubscriptEnum(SetRef("base_"), interface_description)

GetRightHandSideBuffer(interface_description) ==
    SubscriptEnum(SetRef("right_hand_side_"), interface_description)

\* GetReinitializedBuffer answered from the initial set.
GetReinitializedBuffer_InitialSlip(interface_description) ==
    SubscriptEnum(SetRef("initial_"), interface_description)

GetReinitializedBuffer(interface_description) ==
    SubscriptEnum(SetRef("reinitialized_"), interface_description)

GetInitialBuffer(interface_description) ==
    SubscriptEnum(SetRef("initial_"), interface_description)

GetInterfaceStateBuffer(state_type) ==
    SubscriptEnum(SetRef("states_"), state_type)

GetInterfaceParameterBuffer(parameter_type) ==
    SubscriptEnum(SetRef("parameters_"), parameter_type)

GetInterfaceDescriptionBufferT(buffer_type) ==
    CASE buffer_type = "Base" -> GetBaseBufferSet
      [] buffer_type = "RightHandSide" -> GetRightHandSideBufferSet
      [] buffer_type = "Reinitialized" -> GetReinitializedBufferSet
      [] buffer_type = "Initial" -> GetInitialBufferSet

\* GetInterfaceDescriptionBuffer with the default branch answered by the base set.
GetInterfaceDescriptionBuffer_DefaultBase(buffer_type) ==
    CASE buffer_type = "RightHandSide" -> SetRef("right_hand_side_")
      [] buffer_type = "Reinitialized" -> SetRef("reinitialized_")
      [] OTHER -> SetRef("base_")

GetInterfaceDescriptionBuffer(buffer_type) ==
    CASE buffer_type = "RightHandSide" -> SetRef("right_hand_side_")
      [] buffer_type = "Reinitialized" -> SetRef("reinitialized_")
      [] buffer_type = "Base" -> SetRef("base_")
      [] OTHER -> SetRef("initial_")

\* GetFieldBuffer with the Parameters case answered from the state set.
GetFieldBuffer_ParametersSlip(field_type, field_index, buffer_type) ==
    CASE field_type = "Description" ->
            Subscript(GetInterfaceDescriptionBuffer(buffer_type), field_index)
      [] OTHER -> Subscript(SetRef("states_"), field_index)

GetFieldBuffer(field_type, field_index, buffer_type) ==
    CASE field_type = "Description" ->
            Subscript(GetInterfaceDescriptionBuffer(buffer_type), field_index)
      [] field_type = "Parameters" -> Subscript(SetRef("parameters_"), field_index)
      [] OTHER -> Subscript(SetRef("states_"), field_index)

\* GetBuffer with LevelsetBase answered from the right-hand side set.
GetBuffer_BaseSlip(buffer_type) ==
    CASE buffer_type = "LevelsetBase" -> SubscriptEnum(SetRef("right_hand_side_"), "Levelset")
      [] buffer_type = "VolumeFractionBase" ->
            SubscriptEnum(SetRef("base_"), "VolumeFraction")
      [] buffer_type = "LevelsetRightHandSide" ->
            SubscriptEnum(SetRef("right_hand_side_"), "Levelset")
      [] buffer_type = "VolumeFractionRightHandSide" ->
            SubscriptEnum(SetRef("right_hand_side_"), "VolumeFraction")
      [] buffer_type = "LevelsetReinitialized" ->
            SubscriptEnum(SetRef("reinitialized_"), "Levelset")
      [] buffer_type = "VolumeFractionReinitialized" ->
            SubscriptEnum(SetRef("reinitialized_"), "VolumeFraction")
      [] buffer_type = "InterfaceStateVelocity" ->
            SubscriptEnum(SetRef("states_"), "Velocity")
      [] buffer_type = "InterfaceStatePressurePositive" ->
            SubscriptEnum(SetRef("states_"), "PressurePositive")
      [] buffer_type = "InterfaceStatePressureNegative" ->
            SubscriptEnum(SetRef("states_"), "PressureNegative")
      [] OTHER ->
            IF PERFORMANCE
            THEN SubscriptEnum(SetRef("parameters_"), "SurfaceTensionCoefficient")
            ELSE IF buffer_type = "InterfaceParameterSurfaceTensionCoefficient"
                 THEN SubscriptEnum(SetRef("parameters_"), "SurfaceTensionCoefficient")
                 ELSE Throw("invalid_argument")

\* GetBuffer with VolumeFractionReinitialized answered by the level-set buffer.
GetBuffer_DescriptorSlip(buffer_type) ==
    CASE buffer_type = "LevelsetBase" -> SubscriptEnum(SetRef("base_"), "Levelset")
      [] buffer_type = "VolumeFractionBase" ->
            SubscriptEnum(SetRef("base_"), "VolumeFraction")
      [] buffer_type = "LevelsetRightHandSide" ->
            SubscriptEnum(SetRef("right_hand_side_"), "Levelset")
      [] buffer_type = "VolumeFractionRightHandSide" ->
            SubscriptEnum(SetRef("right_hand_side_"), "VolumeFraction")
      [] buffer_type = "LevelsetReinitialized" ->
            SubscriptEnum(SetRef("reinitialized_"), "Levelset")
      [] buffer_type = "VolumeFractionReinitialized" ->
            SubscriptEnum(SetRef("reinitialized_"), "Levelset")
      [] buffer_type = "InterfaceStateVelocity" ->
            SubscriptEnum(SetRef("states_"), "Velocity")
      [] buffer_type = "InterfaceStatePressurePositive" ->
            SubscriptEnum(SetRef("states_"), "PressurePositive")
      [] buffer_type = "InterfaceStatePressureNegative" ->
            SubscriptEnum(SetRef("states_"), "PressureNegative")
      [] OTHER ->
            IF PERFORMANCE
            THEN SubscriptEnum(SetRef("parameters_"), "SurfaceTensionCoefficient")
            ELSE IF buffer_type = "InterfaceParameterSurfaceTensionCoefficient"
                 THEN SubscriptEnum(SetRef("parameters_"), "SurfaceTensionCoefficient")
                 ELSE Throw("invalid_argument")

\* GetBuffer with the performance build's default branch answered by the
\* last interface-state buffer.
GetBuffer_FallbackSlip(buffer_type) ==
    CASE buffer_type = "LevelsetBase" -> SubscriptEnum(SetRef("base_"), "Levelset")
      [] buffer_type = "VolumeFractionBase" ->
            SubscriptEnum(SetRef("base_"), "VolumeFraction")
      [] buffer_type = "LevelsetRightHandSide" ->
            SubscriptEnum(SetRef("right_hand_side_"), "Levelset")
      [] buffer_type = "VolumeFractionRightHandSide" ->
            SubscriptEnum(SetRef("right_hand_side_"), "VolumeFraction")
      [] buffer_type = "LevelsetReinitialized" ->
            SubscriptEnum(SetRef("reinitialized_"), "Levelset")
      [] buffer_type = "VolumeFractionReinitialized" ->
            SubscriptEnum(SetRef("reinitialized_"), "VolumeFraction")
      [] buffer_type = "InterfaceStateVelocity" ->
            SubscriptEnum(SetRef("states_"), "Velocity")
      [] buffer_type = "InterfaceStatePressurePositive" ->
            SubscriptEnum(SetRef("states_"), "PressurePositive")
      [] buffer_type = "InterfaceStatePressureNegative" ->
            SubscriptEnum(SetRef("states_"), "PressureNegative")
      [] OTHER ->
            IF PERFORMANCE
            THEN SubscriptEnum(SetRef("states_"), "PressureNegative")
            ELSE IF buffer_type = "InterfaceParameterSurfaceTensionCoefficient"
                 THEN SubscriptEnum(SetRef("parameters_"), "SurfaceTensionCoefficient")
                 ELSE Throw("invalid_argument")

\* GetBuffer with InterfaceStatePressureNegative answered by the
\* positive-pressure buffer.
GetBuffer_StateSlip(buffer_type) ==
    CASE buffer_type = "LevelsetBase" -> SubscriptEnum(SetRef("base_"), "Levelset")
      [] buffer_type = "VolumeFractionBase" ->
            SubscriptEnum(SetRef("base_"), "VolumeFraction")
      [] buffer_type = "LevelsetRightHandSide" ->
            SubscriptEnum(SetRef("right_hand_side_"), "Levelset")
      [] buffer_type = "VolumeFractionRightHandSide" ->
            SubscriptEnum(SetRef("right_hand_side_"), "VolumeFraction")
      [] buffer_type = "LevelsetReinitialized" ->
            SubscriptEnum(SetRef("reinitialized_"), "Levelset")
      [] buffer_type = "VolumeFractionReinitialized" ->
            SubscriptEnum(SetRef("reinitialized_"), "VolumeFraction")
      [] buffer_type = "InterfaceStateVelocity" ->
            SubscriptEnum(SetRef("states_"), "Velocity")
      [] buffer_type = "InterfaceStatePressurePositive" ->
            SubscriptEnum(SetRef("states_"), "PressurePositive")
      [] buffer_type = "InterfaceStatePressureNegative" ->
            SubscriptEnum(SetRef("states_"), "PressurePositive")
      [] OTHER ->
            IF PERFORMANCE
            THEN SubscriptEnum(SetRef("parameters_"), "SurfaceTensionCoefficient")
            ELSE IF buffer_type = "InterfaceParameterSurfaceTensionCoefficient"
                 THEN SubscriptEnum(SetRef("parameters_"), "SurfaceTensionCoefficient")
                 ELSE Throw("invalid_argument")

\* GetBuffer whose performance build has no case for
\* InterfaceStatePressureNegative, which then takes the default branch.
GetBuffer_BuildSlip(buffer_type) ==
    CASE buffer_type = "LevelsetBase" -> SubscriptEnum(SetRef("base_"), "Levelset")
      [] buffer_type = "VolumeFractionBase" ->
            SubscriptEnum(SetRef("base_"), "VolumeFraction")
      [] buffer_type = "LevelsetRightHandSide" ->
            SubscriptEnum(SetRef("right_hand_side_"), "Levelset")
      [] buffer_type = "VolumeFractionRightHandSide" ->
            SubscriptEnum(SetRef("right_hand_side_"), "VolumeFraction")
      [] buffer_type = "LevelsetReinitialized" ->
            SubscriptEnum(SetRef("reinitialized_"), "Levelset")
      [] buffer_type = "VolumeFractionReinitialized" ->
            SubscriptEnum(SetRef("reinitialized_"), "VolumeFraction")
      [] buffer_type = "InterfaceStateVelocity" ->
            SubscriptEnum(SetRef("states_"), "Velocity")
      [] buffer_type = "InterfaceStatePressurePositive" ->
            SubscriptEnum(SetRef("states_"), "PressurePositive")
      [] buffer_type = "InterfaceStatePressureNegative" /\ ~PERFORMANCE ->
            SubscriptEnum(SetRef("states_"), "PressureNegative")
      [] OTHER ->
            IF PERFORMANCE
            THEN SubscriptEnum(SetRef("parameters_"), "SurfaceTensionCoefficient")
            ELSE IF buffer_type = "InterfaceParameterSurfaceTensionCoefficient"
                 THEN SubscriptEnum(SetRef("parameters_"), "SurfaceTensionCoefficient")
                 ELSE Throw("invalid_argument")

GetBuffer(buffer_type) ==
    CASE buffer_type = "LevelsetBase" -> SubscriptEnum(SetRef("base_"), "Levelset")
      [] buffer_type = "VolumeFractionBase" ->
            SubscriptEnum(SetRef("base_"), "VolumeFraction")
      [] buffer_type = "LevelsetRightHandSide" ->
            SubscriptEnum(SetRef("right_hand_side_"), "Levelset")
      [] buffer_type = "VolumeFractionRightHandSide" ->
            SubscriptEnum(SetRef("right_hand_side_"), "VolumeFraction")
      [] buffer_type = "LevelsetReinitialized" ->
            SubscriptEnum(SetRef("reinitialized_"), "Levelset")
      [] buffer_type = "VolumeFractionReinitialized" ->
            SubscriptEnum(SetRef("reinitialized_"), "VolumeFraction")
      [] buffer_type = "InterfaceStateVelocity" ->
            SubscriptEnum(SetRef("states_"), "Velocity")
      [] buffer_type = "InterfaceStatePressurePositive" ->
            SubscriptEnum(SetRef("states_"), "PressurePositive")
      [] buffer_type = "InterfaceStatePressureNegative" ->
            SubscriptEnum(SetRef("states_"), "PressureNegative")
      [] OTHER ->
            IF PERFORMANCE
            THEN SubscriptEnum(SetRef("parameters_"), "SurfaceTensionCoefficient")
            ELSE IF buffer_type = "InterfaceParameterSurfaceTensionCoefficient"
                 THEN SubscriptEnum(SetRef("parameters_"), "SurfaceTensionCoefficient")
                 ELSE Throw("invalid_argument")

(***************************************************************************)
(* The const overloads of the accessors: the same members, returned as     *)
(* references through which the caller cannot write.                       *)
(***************************************************************************)
GetBaseBufferSetConst == SetRef("base_")
GetRightHandSideBufferSetConst == SetRef("right_hand_side_")
GetReinitializedBufferSetConst == SetRef("reinitialized_")
GetInitialBufferSetConst == SetRef("initial_")
GetInterfaceStateBufferSetConst == SetRef("states_")
GetInterfaceParameterBufferSetConst == SetRef("parameters_")

GetBaseBufferConst(interface_description) ==
    SubscriptEnum(SetRef("base_"), interface_description)

GetRightHandSideBufferConst(interface_description) ==
    SubscriptEnum(SetRef("right_hand_side_"), interface_description)

GetReinitializedBufferConst(interface_description) ==
    SubscriptEnum(SetRef("reinitialized_"), interface_description)

\* The const GetInitialBuffer answered from the reinitialized set.
GetInitialBufferConst_ReinitializedSlip(interface_description) ==
    SubscriptEnum(SetRef("reinitialized_"), interface_description)

GetInitialBufferConst(interface_description) ==
    SubscriptEnum(SetRef("initial_"), interface_description)

GetInterfaceStateBufferConst(state_type) ==
    SubscriptEnum(SetRef("states_"), state_type)

GetInterfaceParameterBufferConst(parameter_type) ==
    SubscriptEnum(SetRef("parameters_"), parameter_type)

GetInterfaceDescriptionBufferTConst(buffer_type) ==
    CASE buffer_type = "Base" -> GetBaseBufferSetConst
      [] buffer_type = "RightHandSide" -> GetRightHandSideBufferSetConst
      [] buffer_type = "Reinitialized" -> GetReinitializedBufferSetConst
      [] buffer_type = "Initial" -> GetInitialBufferSetConst

GetInterfaceDescriptionBufferConst(buffer_type) ==
    CASE buffer_type = "RightHandSide" -> SetRef("right_hand_side_")
      [] buffer_type = "Reinitialized" -> SetRef("reinitialized_")
      [] buffer_type = "Base" -> SetRef("base_")
      [] OTHER -> SetRef("initial_")

GetFieldBufferConst(field_type, field_index, buffer_type) ==
    CASE field_type = "Description" ->
            Subscript(GetInterfaceDescriptionBufferConst(buffer_type), field_index)
      [] field_type = "Parameters" -> Subscript(SetRef("parameters_"), field_index)
      [] OTHER -> Subscript(SetRef("states_"), field_index)

\* The const GetBuffer with the performance build's default branch in every build.
GetBufferConst_Fallback(buffer_type) ==
    CASE buffer_type = "LevelsetBase" -> SubscriptEnum(SetRef("base_"), "Levelset")
      [] buffer_type = "VolumeFractionBase" ->
            SubscriptEnum(SetRef("base_"), "VolumeFraction")
      [] buffer_type = "LevelsetRightHandSide" ->
            SubscriptEnum(SetRef("right_hand_side_"), "Levelset")
      [] buffer_type = "VolumeFractionRightHandSide" ->
            SubscriptEnum(SetRef("right_hand_side_"), "VolumeFraction")
      [] buffer_type = "LevelsetReinitialized" ->
            SubscriptEnum(SetRef("reinitialized_"), "Levelset")
      [] buffer_type = "VolumeFractionReinitialized" ->
            SubscriptEnum(SetRef("reinitialized_"), "VolumeFraction")
      [] buffer_type = "InterfaceStateVelocity" ->
            SubscriptEnum(SetRef("states_"), "Velocity")
      [] buffer_type = "InterfaceStatePressurePositive" ->
            SubscriptEnum(SetRef("states_"), "PressurePositive")
      [] buffer_type = "InterfaceStatePressureNegative" ->
            SubscriptEnum(SetRef("states_"), "PressureNegative")
      [] OTHER -> SubscriptEnum(SetRef("parameters_"), "SurfaceTensionCoefficient")

GetBufferConst(buffer_type) ==
    CASE buffer_type = "LevelsetBase" -> SubscriptEnum(SetRef("base_"), "Levelset")
      [] buffer_type = "VolumeFractionBase" ->
            SubscriptEnum(SetRef("base_"), "VolumeFraction")
      [] buffer_type = "LevelsetRightHandSide" ->
            SubscriptEnum(SetRef("right_hand_side_"), "Levelset")
      [] buffer_type = "VolumeFractionRightHandSide" ->
            SubscriptEnum(SetRef("right_hand_side_"), "VolumeFraction")
      [] buffer_type = "LevelsetReinitialized" ->
            SubscriptEnum(SetRef("reinitialized_"), "Levelset")
      [] buffer_type = "VolumeFractionReinitialized" ->
            SubscriptEnum(SetRef("reinitialized_"), "VolumeFraction")
      [] buffer_type = "InterfaceStateVelocity" ->
            SubscriptEnum(SetRef("states_"), "Velocity")
      [] buffer_type = "InterfaceStatePressurePositive" ->
            SubscriptEnum(SetRef("states_"), "PressurePositive")
      [] buffer_type = "InterfaceStatePressureNegative" ->
            SubscriptEnum(SetRef("states_"), "PressureNegative")
      [] OTHER ->
            IF PERFORMANCE
            THEN SubscriptEnum(SetRef("parameters_"), "SurfaceTensionCoefficient")
            ELSE IF buffer_type = "InterfaceParameterSurfaceTensionCoefficient"
                 THEN SubscriptEnum(SetRef("parameters_"), "SurfaceTensionCoefficient")
                 ELSE Throw("invalid_argument")

(***************************************************************************)
(* The constructors, as the statements of their bodies.                    *)
(***************************************************************************)
\* InterfaceBlockField with the second copy aimed at the right-hand side again,
\* so that the reinitialized level-set is never written.
InterfaceBlockField_CopySlip(levelset_initial) ==
    << [op |-> "SetFieldBuffer", target |-> GetBaseBufferSet, value |-> 0],
       [op |-> "CopySingleBuffer", source |-> levelset_initial,
        target |-> GetRightHandSideBuffer("Levelset")],
       [op |-> "CopySingleBuffer", source |-> levelset_initial,
        target |-> GetRightHandSideBuffer("Levelset")],
       [op |-> "SetSingleBuffer", target |-> GetRightHandSideBuffer("VolumeFraction"),
        value |-> 0],
       [op |-> "SetSingleBuffer", target |-> GetReinitializedBuffer("VolumeFraction"),
        value |-> 0],
       [op |-> "SetFieldBuffer", target |-> GetInitialBufferSet, value |-> 0],
       [op |-> "SetFieldBuffer", target |-> GetInterfaceStateBufferSet, value |-> 0] >>
    \o IF InterfaceParameterModelActive
       THEN << [op |-> "SetFieldBuffer", target |-> GetInterfaceParameterBufferSet,
                value |-> 0] >>
       ELSE << >>

\* InterfaceBlockField with the parameter buffers zeroed whether or not the
\* interface-parameter model is active.
InterfaceBlockField_ParametersAlways(levelset_initial) ==
    << [op |-> "SetFieldBuffer", target |-> GetBaseBufferSet, value |-> 0],
       [op |-> "CopySingleBuffer", source |-> levelset_initial,
        target |-> GetRightHandSideBuffer("Levelset")],
       [op |-> "CopySingleBuffer", source |-> levelset_initial,
        target |-> GetReinitializedBuffer("Levelset")],
       [op |-> "SetSingleBuffer", target |-> GetRightHandSideBuffer("VolumeFraction"),
        value |-> 0],
       [op |-> "SetSingleBuffer", target |-> GetReinitializedBuffer("VolumeFraction"),
        value |-> 0],
       [op |-> "SetFieldBuffer", target |-> GetInitialBufferSet, value |-> 0],
       [op |-> "SetFieldBuffer", target |-> GetInterfaceStateBufferSet, value |-> 0],
       [op |-> "SetFieldBuffer", target |-> GetInterfaceParameterBufferSet,
        value |-> 0] >>

\* InterfaceBlockField with the field copied into the base level-set as well.
InterfaceBlockField_BaseCopy(levelset_initial) ==
    << [op |-> "SetFieldBuffer", target |-> GetBaseBufferSet, value |-> 0],
       [op |-> "CopySingleBuffer", source |-> levelset_initial,
        target |-> GetRightHandSideBuffer("Levelset")],
       [op |-> "CopySingleBuffer", source |-> levelset_initial,
        target |-> GetBaseBuffer("Levelset")],
       [op |-> "CopySingleBuffer", source |-> levelset_initial,
        target |-> GetReinitializedBuffer("Levelset")],
       [op |-> "SetSingleBuffer", target |-> GetRightHandSideBuffer("VolumeFraction"),
        value |-> 0],
       [op |-> "SetSingleBuffer", target |-> GetReinitializedBuffer("VolumeFraction"),
        value |-> 0],
       [op |-> "SetFieldBuffer", target |-> GetInitialBufferSet, value |-> 0],
       [op |-> "SetFieldBuffer", target |-> GetInterfaceStateBufferSet, value |-> 0] >>
    \o IF InterfaceParameterModelActive
       THEN << [op |-> "SetFieldBuffer", target |-> GetInterfaceParameterBufferSet,
                value |-> 0] >>
       ELSE << >>

\* InterfaceBlockField with the field copied into the initial level-set too.
InterfaceBlockField_InitialCopy(levelset_initial) ==
    << [op |-> "SetFieldBuffer", target |-> GetBaseBufferSet, value |-> 0],
       [op |-> "CopySingleBuffer", source |-> levelset_initial,
        target |-> GetRightHandSideBuffer("Levelset")],
       [op |-> "CopySingleBuffer", source |-> levelset_initial,
        target |-> GetReinitializedBuffer("Levelset")],
       [op |-> "SetSingleBuffer", target |-> GetRightHandSideBuffer("VolumeFraction"),
        value |-> 0],
       [op |-> "SetSingleBuffer", target |-> GetReinitializedBuffer("VolumeFraction"),
        value |-> 0],
       [op |-> "SetFieldBuffer", target |-> GetInitialBufferSet, value |-> 0],
       [op |-> "CopySingleBuffer", source |-> levelset_initial,
        target |-> GetInitialBuffer("Levelset")],
       [op |-> "SetFieldBuffer", target |-> GetInterfaceStateBufferSet, value |-> 0] >>
    \o IF InterfaceParameterModelActive
       THEN << [op |-> "SetFieldBuffer", target |-> GetInterfaceParameterBufferSet,
                value |-> 0] >>
       ELSE << >>

\* InterfaceBlock( double const (&levelset_initial)[..][..][..] )
InterfaceBlockField(levelset_initial) ==
    << [op |-> "SetFieldBuffer", target |-> GetBaseBufferSet, value |-> 0],
       [op |-> "CopySingleBuffer", source |-> levelset_initial,
        target |-> GetRightHandSideBuffer("Levelset")],
       [op |-> "CopySingleBuffer", source |-> levelset_initial,
        target |-> GetReinitializedBuffer("Levelset")],
       [op |-> "SetSingleBuffer", target |-> GetRightHandSideBuffer("VolumeFraction"),
        value |-> 0],
       [op |-> "SetSingleBuffer", target |-> GetReinitializedBuffer("VolumeFraction"),
        value |-> 0],
       [op |-> "SetFieldBuffer", target |-> GetInitialBufferSet, value |-> 0],
       [op |-> "SetFieldBuffer", target |-> GetInterfaceStateBufferSet, value |-> 0] >>
    \o IF InterfaceParameterModelActive
       THEN << [op |-> "SetFieldBuffer", target |-> GetInterfaceParameterBufferSet,
                value |-> 0] >>
       ELSE << >>

\* InterfaceBlockScalar with a non-strict sign test.
InterfaceBlockScalar_NonStrict(levelset_initial) ==
    << [op |-> "SetSingleBuffer", target |-> GetBaseBuffer("Levelset"), value |-> 0],
       [op |-> "SetSingleBuffer", target |-> GetBaseBuffer("VolumeFraction"),
        value |-> IF levelset_initial >= 0 THEN 1 ELSE 0],
       [op |-> "SetSingleBuffer", target |-> GetRightHandSideBuffer("Levelset"),
        value |-> levelset_initial],
       [op |-> "SetSingleBuffer", target |-> GetReinitializedBuffer("Levelset"),
        value |-> levelset_initial],
       [op |-> "SetSingleBuffer", target |-> GetRightHandSideBuffer("VolumeFraction"),
        value |-> 0],
       [op |-> "SetSingleBuffer", target |-> GetReinitializedBuffer("VolumeFraction"),
        value |-> 0],
       [op |-> "SetFieldBuffer", target |-> GetInitialBufferSet, value |-> 0],
       [op |-> "SetFieldBuffer", target |-> GetInterfaceStateBufferSet, value |-> 0] >>
    \o IF InterfaceParameterModelActive
       THEN << [op |-> "SetFieldBuffer", target |-> GetInterfaceParameterBufferSet,
                value |-> 0] >>
       ELSE << >>

\* InterfaceBlockScalar with the phase indicator, not the level-set value,
\* written to the right-hand side level-set.
InterfaceBlockScalar_IndicatorSlip(levelset_initial) ==
    << [op |-> "SetSingleBuffer", target |-> GetBaseBuffer("Levelset"), value |-> 0],
       [op |-> "SetSingleBuffer", target |-> GetBaseBuffer("VolumeFraction"),
        value |-> IF levelset_initial > 0 THEN 1 ELSE 0],
       [op |-> "SetSingleBuffer", target |-> GetRightHandSideBuffer("Levelset"),
        value |-> IF levelset_initial > 0 THEN 1 ELSE 0],
       [op |-> "SetSingleBuffer", target |-> GetReinitializedBuffer("Levelset"),
        value |-> levelset_initial],
       [op |-> "SetSingleBuffer", target |-> GetRightHandSideBuffer("VolumeFraction"),
        value |-> 0],
       [op |-> "SetSingleBuffer", target |-> GetReinitializedBuffer("VolumeFraction"),
        value |-> 0],
       [op |-> "SetFieldBuffer", target |-> GetInitialBufferSet, value |-> 0],
       [op |-> "SetFieldBuffer", target |-> GetInterfaceStateBufferSet, value |-> 0] >>
    \o IF InterfaceParameterModelActive
       THEN << [op |-> "SetFieldBuffer", target |-> GetInterfaceParameterBufferSet,
                value |-> 0] >>
       ELSE << >>

\* InterfaceBlockScalar with the interface states left as they were.
InterfaceBlockScalar_StatesSkipped(levelset_initial) ==
    << [op |-> "SetSingleBuffer", target |-> GetBaseBuffer("Levelset"), value |-> 0],
       [op |-> "SetSingleBuffer", target |-> GetBaseBuffer("VolumeFraction"),
        value |-> IF levelset_initial > 0 THEN 1 ELSE 0],
       [op |-> "SetSingleBuffer", target |-> GetRightHandSideBuffer("Levelset"),
        value |-> levelset_initial],
       [op |-> "SetSingleBuffer", target |-> GetReinitializedBuffer("Levelset"),
        value |-> levelset_initial],
       [op |-> "SetSingleBuffer", target |-> GetRightHandSideBuffer("VolumeFraction"),
        value |-> 0],
       [op |-> "SetSingleBuffer", target |-> GetReinitializedBuffer("VolumeFraction"),
        value |-> 0],
       [op |-> "SetFieldBuffer", target |-> GetInitialBufferSet, value |-> 0] >>
    \o IF InterfaceParameterModelActive
       THEN << [op |-> "SetFieldBuffer", target |-> GetInterfaceParameterBufferSet,
                value |-> 0] >>
       ELSE << >>

\* InterfaceBlock( double const levelset_initial )
InterfaceBlockScalar(levelset_initial) ==
    << [op |-> "SetSingleBuffer", target |-> GetBaseBuffer("Levelset"), value |-> 0],
       [op |-> "SetSingleBuffer", target |-> GetBaseBuffer("VolumeFraction"),
        value |-> IF levelset_initial > 0 THEN 1 ELSE 0],
       [op |-> "SetSingleBuffer", target |-> GetRightHandSideBuffer("Levelset"),
        value |-> levelset_initial],
       [op |-> "SetSingleBuffer", target |-> GetReinitializedBuffer("Levelset"),
        value |-> levelset_initial],
       [op |-> "SetSingleBuffer", target |-> GetRightHandSideBuffer("VolumeFraction"),
        value |-> 0],
       [op |-> "SetSingleBuffer", target |-> GetReinitializedBuffer("VolumeFraction"),
        value |-> 0],
       [op |-> "SetFieldBuffer", target |-> GetInitialBufferSet, value |-> 0],
       [op |-> "SetFieldBuffer", target |-> GetInterfaceStateBufferSet, value |-> 0] >>
    \o IF InterfaceParameterModelActive
       THEN << [op |-> "SetFieldBuffer", target |-> GetInterfaceParameterBufferSet,
                value |-> 0] >>
       ELSE << >>

Targets(stmts) == {stmts[i].target : i \in DOMAIN stmts}

(***************************************************************************)
(* The initial state: the block's storage is allocated and holds whatever  *)
(* the memory held (the members are not value-initialised).                *)
(***************************************************************************)
RawBlock(garbage) ==
    [set \in MemberNames |->
        [i \in 0..(NumberOfFields(set) - 1) |-> [c \in Cells |-> garbage[c]]]]

NoCall == [call |-> "none"]
NoWrite == [target |-> "none"]

InitBlock ==
    /\ PERFORMANCE \in BOOLEAN
    /\ InterfaceParameterModelActive \in BOOLEAN
    /\ pc = "raw"
    /\ \E garbage \in [Cells -> Vals] : block = RawBlock(garbage)
    /\ ctor = [variant |-> "none"]
    /\ written = {}
    /\ last = NoCall
    /\ lastWrite = NoWrite
    /\ nwrites = 0

ConstructFromField ==
    \E levelset_initial \in [Cells -> Vals] :
        /\ pc = "raw"
        /\ pc' = "constructed"
        /\ block' = Execute(block, InterfaceBlockField(levelset_initial))
        /\ written' = Targets(InterfaceBlockField(levelset_initial))
        /\ ctor' = [variant |-> "field", levelset_initial |-> levelset_initial]
        /\ UNCHANGED <<PERFORMANCE, InterfaceParameterModelActive, last, lastWrite, nwrites>>
        /\ UNCHANGED kernelVars
        /\ UNCHANGED readerVars
        /\ UNCHANGED threadVars

ConstructFromScalar ==
    \E levelset_initial \in Vals :
        /\ pc = "raw"
        /\ pc' = "constructed"
        /\ block' = Execute(block, InterfaceBlockScalar(levelset_initial))
        /\ written' = Targets(InterfaceBlockScalar(levelset_initial))
        /\ ctor' = [variant |-> "scalar", levelset_initial |-> levelset_initial]
        /\ UNCHANGED <<PERFORMANCE, InterfaceParameterModelActive, last, lastWrite, nwrites>>
        /\ UNCHANGED kernelVars
        /\ UNCHANGED readerVars
        /\ UNCHANGED threadVars

(***************************************************************************)
(* Accessor calls.  A call names the accessor and its arguments; a path is *)
(* a call followed, when the call returns a whole set, by the subscript    *)
(* the caller applies to it (GetBaseBuffer()[Levelset]).                   *)
(***************************************************************************)
Call(acc, args) == [acc |-> acc, args |-> args]

AccessorCalls ==
    {Call(acc, <<d>>) :
        acc \in {"GetBaseBuffer", "GetRightHandSideBuffer", "GetReinitializedBuffer",
                 "GetInitialBuffer"},
        d \in InterfaceDescription}
    \cup {Call(acc, << >>) :
        acc \in {"GetBaseBufferSet", "GetRightHandSideBufferSet",
                 "GetReinitializedBufferSet", "GetInitialBufferSet",
                 "GetInterfaceStateBufferSet", "GetInterfaceParameterBufferSet"}}
    \cup {Call("GetInterfaceDescriptionBufferT", <<bt>>) :
        bt \in InterfaceDescriptionBufferType}
    \cup {Call("GetInterfaceDescriptionBuffer", <<bt>>) :
        bt \in InterfaceDescriptionBufferType \cup {OutOfRange}}
    \cup {Call("GetInterfaceStateBuffer", <<s>>) : s \in InterfaceState}
    \cup {Call("GetInterfaceParameterBuffer", <<p>>) : p \in InterfaceParameter}
    \cup {Call("GetFieldBuffer", <<ft, i, bt>>) :
        ft \in InterfaceFieldType \cup {OutOfRange}, i \in 0..MaxFieldIndex,
        bt \in InterfaceDescriptionBufferType}
    \cup {Call("GetBuffer", <<id>>) : id \in InterfaceBlockBufferType \cup {OutOfRange}}

Invoke(call) ==
    CASE call.acc = "GetBaseBuffer" -> GetBaseBuffer(call.args[1])
      [] call.acc = "GetRightHandSideBuffer" -> GetRightHandSideBuffer(call.args[1])
      [] call.acc = "GetReinitializedBuffer" -> GetReinitializedBuffer(call.args[1])
      [] call.acc = "GetInitialBuffer" -> GetInitialBuffer(call.args[1])
      [] call.acc = "GetBaseBufferSet" -> GetBaseBufferSet
      [] call.acc = "GetRightHandSideBufferSet" -> GetRightHandSideBufferSet
      [] call.acc = "GetReinitializedBufferSet" -> GetReinitializedBufferSet
      [] call.acc = "GetInitialBufferSet" -> GetInitialBufferSet
      [] call.acc = "GetInterfaceStateBufferSet" -> GetInterfaceStateBufferSet
      [] call.acc = "GetInterfaceParameterBufferSet" -> GetInterfaceParameterBufferSet
      [] call.acc = "GetInterfaceDescriptionBufferT" ->
            GetInterfaceDescriptionBufferT(call.args[1])
      [] call.acc = "GetInterfaceDescriptionBuffer" ->
            GetInterfaceDescriptionBuffer(call.args[1])
      [] call.acc = "GetInterfaceStateBuffer" -> GetInterfaceStateBuffer(call.args[1])
      [] call.acc = "GetInterfaceParameterBuffer" ->
            GetInterfaceParameterBuffer(call.args[1])
      [] call.acc = "GetFieldBuffer" ->
            GetFieldBuffer(call.args[1], call.args[2], call.args[3])
      [] call.acc = "GetBuffer" -> GetBuffer(call.args[1])

\* The const overload a call names.
InvokeConst(call) ==
    CASE call.acc = "GetBaseBuffer" -> GetBaseBufferConst(call.args[1])
      [] call.acc = "GetRightHandSideBuffer" -> GetRightHandSideBufferConst(call.args[1])
      [] call.acc = "GetReinitializedBuffer" -> GetReinitializedBufferConst(call.args[1])
      [] call.acc = "GetInitialBuffer" -> GetInitialBufferConst(call.args[1])
      [] call.acc = "GetBaseBufferSet" -> GetBaseBufferSetConst
      [] call.acc = "GetRightHandSideBufferSet" -> GetRightHandSideBufferSetConst
      [] call.acc = "GetReinitializedBufferSet" -> GetReinitializedBufferSetConst
      [] call.acc = "GetInitialBufferSet" -> GetInitialBufferSetConst
      [] call.acc = "GetInterfaceStateBufferSet" -> GetInterfaceStateBufferSetConst
      [] call.acc = "GetInterfaceParameterBufferSet" -> GetInterfaceParameterBufferSetConst
      [] call.acc = "GetInterfaceDescriptionBufferT" ->
            GetInterfaceDescriptionBufferTConst(call.args[1])
      [] call.acc = "GetInterfaceDescriptionBuffer" ->
            GetInterfaceDescriptionBufferConst(call.args[1])
      [] call.acc = "GetInterfaceStateBuffer" -> GetInterfaceStateBufferConst(call.args[1])
      [] call.acc = "GetInterfaceParameterBuffer" ->
            GetInterfaceParameterBufferConst(call.args[1])
      [] call.acc = "GetFieldBuffer" ->
            GetFieldBufferConst(call.args[1], call.args[2], call.args[3])
      [] call.acc = "GetBuffer" -> GetBufferConst(call.args[1])

\* The accessors that return a whole set, and the member each returns by its name.
SetAccessors ==
    {"GetBaseBufferSet", "GetRightHandSideBufferSet", "GetReinitializedBufferSet",
     "GetInitialBufferSet", "GetInterfaceStateBufferSet",
     "GetInterfaceParameterBufferSet", "GetInterfaceDescriptionBufferT",
     "GetInterfaceDescriptionBuffer"}

AccessPaths ==
    UNION {IF call.acc \in SetAccessors
           THEN {[call |-> call, sub |-> e] :
                    e \in CASE call.acc = "GetInterfaceStateBufferSet" -> InterfaceState
                           [] call.acc = "GetInterfaceParameterBufferSet" ->
                                 InterfaceParameter
                           [] OTHER -> InterfaceDescription}
           ELSE {[call |-> call, sub |-> "none"]} : call \in AccessorCalls}

\* The reference a path ends in: a buffer, or the throw of its call.
Resolve(path) ==
    LET r == Invoke(path.call) IN
    IF r.kind = "set" THEN SubscriptEnum(r, path.sub) ELSE r

\* The value a reference reads in a cell.
Read(blk, ref, c) == blk[ref.set][ref.index][c]

(***************************************************************************)
(* The buffer a path asks for, read off the accessor's name and arguments: *)
(* what its documentation says it returns.                                 *)
(***************************************************************************)
RoleMember(buffer_type) ==
    CASE buffer_type = "Base" -> "base_"
      [] buffer_type = "RightHandSide" -> "right_hand_side_"
      [] buffer_type = "Reinitialized" -> "reinitialized_"
      [] buffer_type = "Initial" -> "initial_"
      [] OTHER -> "none"

IdentifierBuffer(id) ==
    CASE id = "LevelsetBase" -> <<"base_", "Levelset">>
      [] id = "VolumeFractionBase" -> <<"base_", "VolumeFraction">>
      [] id = "LevelsetRightHandSide" -> <<"right_hand_side_", "Levelset">>
      [] id = "VolumeFractionRightHandSide" -> <<"right_hand_side_", "VolumeFraction">>
      [] id = "LevelsetReinitialized" -> <<"reinitialized_", "Levelset">>
      [] id = "VolumeFractionReinitialized" -> <<"reinitialized_", "VolumeFraction">>
      [] id = "InterfaceStateVelocity" -> <<"states_", "Velocity">>
      [] id = "InterfaceStatePressurePositive" -> <<"states_", "PressurePositive">>
      [] id = "InterfaceStatePressureNegative" -> <<"states_", "PressureNegative">>
      [] id = "InterfaceParameterSurfaceTensionCoefficient" ->
            <<"parameters_", "SurfaceTensionCoefficient">>
      [] OTHER -> <<"none", "Levelset">>

Asked(path) ==
    LET acc == path.call.acc
        args == path.call.args
    IN  CASE acc = "GetBaseBuffer" -> BufferRef("base_", FieldIndex(args[1]))
          [] acc = "GetRightHandSideBuffer" ->
                BufferRef("right_hand_side_", FieldIndex(args[1]))
          [] acc = "GetReinitializedBuffer" ->
                BufferRef("reinitialized_", FieldIndex(args[1]))
          [] acc = "GetInitialBuffer" -> BufferRef("initial_", FieldIndex(args[1]))
          [] acc = "GetBaseBufferSet" -> BufferRef("base_", FieldIndex(path.sub))
          [] acc = "GetRightHandSideBufferSet" ->
                BufferRef("right_hand_side_", FieldIndex(path.sub))
          [] acc = "GetReinitializedBufferSet" ->
                BufferRef("reinitialized_", FieldIndex(path.sub))
          [] acc = "GetInitialBufferSet" -> BufferRef("initial_", FieldIndex(path.sub))
          [] acc = "GetInterfaceStateBufferSet" ->
                BufferRef("states_", FieldIndex(path.sub))
          [] acc = "GetInterfaceParameterBufferSet" ->
                BufferRef("parameters_", FieldIndex(path.sub))
          [] acc \in {"GetInterfaceDescriptionBufferT", "GetInterfaceDescriptionBuffer"} ->
                BufferRef(RoleMember(args[1]), FieldIndex(path.sub))
          [] acc = "GetInterfaceStateBuffer" -> BufferRef("states_", FieldIndex(args[1]))
          [] acc = "GetInterfaceParameterBuffer" ->
                BufferRef("parameters_", FieldIndex(args[1]))
          [] acc = "GetFieldBuffer" ->
                BufferRef(CASE args[1] = "Description" -> RoleMember(args[3])
                            [] args[1] = "Parameters" -> "parameters_"
                            [] OTHER -> "states_",
                          args[2])
          [] acc = "GetBuffer" ->
                BufferRef(IdentifierBuffer(args[1])[1],
                          FieldIndex(IdentifierBuffer(args[1])[2]))

(***************************************************************************)
(* The operations on a constructed block.                                  *)
(***************************************************************************)
\* Some code calls an accessor and keeps what it returns.
CallAccessor ==
    /\ pc = "constructed"
    /\ \E call \in AccessorCalls :
        /\ last' = [call |-> call, result |-> Invoke(call)]
        /\ UNCHANGED <<PERFORMANCE, InterfaceParameterModelActive, pc, block, ctor,
                       written, lastWrite, nwrites>>
        /\ UNCHANGED kernelVars
        /\ UNCHANGED readerVars
        /\ UNCHANGED threadVars

\* Some code calls an accessor on a const block and keeps what it returns.
CallConstAccessor ==
    /\ pc = "constructed"
    /\ \E call \in AccessorCalls :
        /\ last' = [call |-> call, result |-> InvokeConst(call), const |-> TRUE]
        /\ UNCHANGED <<PERFORMANCE, InterfaceParameterModelActive, pc, block, ctor,
                       written, lastWrite, nwrites>>
        /\ UNCHANGED kernelVars
        /\ UNCHANGED readerVars
        /\ UNCHANGED threadVars

\* What a caller holds after following a path: the buffer the path asked for
\* and the reference the accessor gave.
WriteTargets == {[asked |-> Asked(path), ref |-> Resolve(path)] : path \in AccessPaths}

\* An external solver writes one cell through the reference a path gave it.
WriteThrough ==
    /\ pc = "constructed"
    /\ nwrites < MaxWrites
    /\ \E held \in WriteTargets, c \in Cells, value \in Vals :
        /\ held.ref.kind = "buffer"
        /\ Exists(block, held.ref)
        /\ block' = [block EXCEPT ![held.ref.set][held.ref.index][c] = value]
        /\ lastWrite' = [asked |-> held.asked, through |-> held.ref, cell |-> c,
                         value |-> value]
        /\ nwrites' = nwrites + 1
        /\ UNCHANGED <<PERFORMANCE, InterfaceParameterModelActive, pc, ctor, written,
                       last>>
        /\ UNCHANGED kernelVars
        /\ UNCHANGED readerVars
        /\ UNCHANGED threadVars

(***************************************************************************)
(* Exact arithmetic for the kernel.  A double is modelled by the rational  *)
(* it holds, so that every product, sum and quotient of the kernel is      *)
(* carried out without rounding.  A natural number is its sequence of      *)
(* digits to the radix, lowest first, without a leading zero digit.        *)
(***************************************************************************)
Radix == 10^3

Max(m, n) == IF m < n THEN n ELSE m
Min(m, n) == IF m < n THEN m ELSE n

RECURSIVE NFromInt(_)
NFromInt(n) == IF n = 0 THEN << >> ELSE <<n % Radix>> \o NFromInt(n \div Radix)

RECURSIVE NTrim(_)
NTrim(x) ==
    IF x = << >> THEN x
    ELSE IF x[Len(x)] = 0 THEN NTrim(SubSeq(x, 1, Len(x) - 1)) ELSE x

NLimb(x, i) == IF i <= Len(x) THEN x[i] ELSE 0

RECURSIVE NCarry(_, _, _)
NCarry(raw, i, carry) ==
    IF i > Len(raw) THEN NFromInt(carry)
    ELSE LET t == raw[i] + carry
         IN  <<t % Radix>> \o NCarry(raw, i + 1, t \div Radix)

NAdd(x, y) == NCarry([i \in 1..Max(Len(x), Len(y)) |-> NLimb(x, i) + NLimb(y, i)], 1, 0)

RECURSIVE NBorrow(_, _, _, _)
NBorrow(x, y, i, borrow) ==
    IF i > Len(x) THEN << >>
    ELSE LET t == x[i] - NLimb(y, i) - borrow
         IN  <<IF t < 0 THEN t + Radix ELSE t>>
             \o NBorrow(x, y, i + 1, IF t < 0 THEN 1 ELSE 0)

\* x - y for x >= y.
NSub(x, y) == NTrim(NBorrow(x, y, 1, 0))

RECURSIVE NLessAt(_, _, _)
NLessAt(x, y, i) ==
    IF i = 0 THEN FALSE
    ELSE IF x[i] # y[i] THEN x[i] < y[i] ELSE NLessAt(x, y, i - 1)

NLess(x, y) == IF Len(x) # Len(y) THEN Len(x) < Len(y) ELSE NLessAt(x, y, Len(x))

RECURSIVE NConv(_, _, _, _)
NConv(x, y, k, i) ==
    IF i > Min(k, Len(x)) THEN 0 ELSE x[i] * y[k + 1 - i] + NConv(x, y, k, i + 1)

NMul(x, y) ==
    IF x = << >> \/ y = << >> THEN << >>
    ELSE NCarry([k \in 1..(Len(x) + Len(y) - 1) |->
                    NConv(x, y, k, Max(1, k + 1 - Len(y)))], 1, 0)

RECURSIVE NProduct(_)
NProduct(factors) ==
    IF factors = << >> THEN NFromInt(1)
    ELSE IF Len(factors) = 1 THEN factors[1]
    ELSE NMul(Head(factors), NProduct(Tail(factors)))

\* A rational: a sign, and numerator and denominator as lists of factors.
Range(seq) == {seq[i] : i \in DOMAIN seq}

RemoveOne(seq, f) ==
    LET i == CHOOSE j \in DOMAIN seq : seq[j] = f
    IN  SubSeq(seq, 1, i - 1) \o SubSeq(seq, i + 1, Len(seq))

\* The factors of a that are left when those of b are struck out.
RECURSIVE Diff(_, _)
Diff(a, b) ==
    IF b = << >> \/ a = << >> THEN a
    ELSE IF Head(b) \in Range(a) THEN Diff(RemoveOne(a, Head(b)), Tail(b))
    ELSE Diff(a, Tail(b))

QInt(n) ==
    [neg |-> n < 0, num |-> <<NFromInt(IF n < 0 THEN 0 - n ELSE n)>>, den |-> << >>]

QFrac(n, d) ==
    [neg |-> n < 0, num |-> <<NFromInt(IF n < 0 THEN 0 - n ELSE n)>>,
     den |-> <<NFromInt(d)>>]

QZero == QInt(0)

\* What a division by zero leaves behind: no number.
NotANumber == [neg |-> FALSE, num |-> << >>, den |-> << << >> >>]

IsNaN(x) == << >> \in Range(x.den)
IsZero(x) == ~IsNaN(x) /\ << >> \in Range(x.num)

QMul(x, y) ==
    IF IsNaN(x) \/ IsNaN(y) THEN NotANumber
    ELSE IF IsZero(x) \/ IsZero(y) THEN QZero
    ELSE LET num == x.num \o y.num
             den == x.den \o y.den
         IN  [neg |-> x.neg # y.neg, num |-> Diff(num, den), den |-> Diff(den, num)]

QDiv(x, y) ==
    IF IsNaN(x) \/ IsNaN(y) \/ IsZero(y) THEN NotANumber
    ELSE QMul(x, [neg |-> y.neg, num |-> y.den, den |-> y.num])

QAdd(x, y) ==
    IF IsNaN(x) \/ IsNaN(y) THEN NotANumber
    ELSE LET den == x.den \o Diff(y.den, x.den)
             xn == NProduct(x.num \o Diff(den, x.den))
             yn == NProduct(y.num \o Diff(den, y.den))
             sum == IF x.neg = y.neg THEN [neg |-> x.neg, mag |-> NAdd(xn, yn)]
                    ELSE IF NLess(xn, yn) THEN [neg |-> y.neg, mag |-> NSub(yn, xn)]
                    ELSE [neg |-> x.neg, mag |-> NSub(xn, yn)]
         IN  IF sum.mag = << >> THEN QZero
             ELSE [neg |-> sum.neg, num |-> <<sum.mag>>, den |-> den]

QEq(x, y) ==
    /\ ~IsNaN(x)
    /\ ~IsNaN(y)
    /\ LET xn == NProduct(Diff(x.num, y.num) \o Diff(y.den, x.den))
           yn == NProduct(Diff(y.num, x.num) \o Diff(x.den, y.den))
       IN  xn = yn /\ (xn = << >> \/ x.neg = y.neg)

(***************************************************************************)
(* WENO9 (stencils/spatial_reconstruction_stencils/weno9.{h,cpp}).         *)
(***************************************************************************)
\* The constants of weno9.h.
stencil_size_ == 9
downstream_stencil_size_ == 4

epsilon_weno9_ ==
    [neg |-> FALSE, num |-> <<NFromInt(1)>>,
     den |-> <<NMul(NFromInt(10^5), NFromInt(10^5))>>]

\* coef_smoothness_<i>_<n>_, i = 0..4, n = 01..15.
SmoothnessTable ==
    <<
       <<22658, -208501, 364863, -288007, 86329,
         482963, -1704396, 1358458, -411487,
         1521393, -2462076, 758823, 1020563, -649501, 107918>>,
       <<6908, -60871, 99213, -70237, 18079,
         138563, -464976, 337018, -88297,
         406293, -611976, 165153, 242723, -140251, 22658>>,
       <<6908, -51001, 67923, -38947, 8209,
         104963, -299076, 179098, -38947,
         231153, -299076, 67923, 104963, -51001, 6908>>,
       <<22658, -140251, 165153, -88297, 18079,
         242723, -611976, 337018, -70237,
         406293, -464976, 99213, 138563, -60871, 6908>>,
       <<107918, -649501, 758823, -411487, 86329,
         1020563, -2462076, 1358458, -288007,
         1521393, -1704396, 364863, 482963, -208501, 22658>>
    >>

coef_smoothness(i, n) == QInt(SmoothnessTable[i + 1][n])

\* coef_weights_<i>_, i = 1..5.
WeightsTable == <<QFrac(1, 126), QFrac(10, 63), QFrac(10, 21), QFrac(20, 63), QFrac(5, 126)>>

coef_weights(i) == WeightsTable[i]

\* coef_stencils_<n>_, n = 1..25, in sixtieths.
StencilsTable ==
    << 12, -63, 137, -163, 137,
       -3, 17, -43, 77, 12,
       2, -13, 47, 27, -3,
       -3, 27, 47, -13, 2,
       12, 77, -43, 17, -3 >>

coef_stencils(n) == QFrac(StencilsTable[n], 60)

\* The double that holds an integer sample.
Double(n) == QInt(n)

Sum3(x1, x2, x3) == QAdd(QAdd(x1, x2), x3)
Sum4(x1, x2, x3, x4) == QAdd(Sum3(x1, x2, x3), x4)
Sum5(x1, x2, x3, x4, x5) == QAdd(Sum4(x1, x2, x3, x4), x5)

\* Samples with v6 read two strides, not one, past the centre.
Samples_IndexSlip(array, evaluation_properties) ==
    LET at(k) == Double(array[downstream_stencil_size_ + evaluation_properties[1]
                              + k * evaluation_properties[2]])
    IN  [v1 |-> at(0 - 4), v2 |-> at(0 - 3), v3 |-> at(0 - 2), v4 |-> at(0 - 1),
         v5 |-> at(0), v6 |-> at(2), v7 |-> at(2), v8 |-> at(3), v9 |-> at(4)]

\* Samples read with the stride left out: v1 .. v9 in window order whatever
\* the evaluation pair says.
Samples_StrideDropped(array, evaluation_properties) ==
    LET at(k) == Double(array[downstream_stencil_size_ + evaluation_properties[1] + k])
    IN  [v1 |-> at(0 - 4), v2 |-> at(0 - 3), v3 |-> at(0 - 2), v4 |-> at(0 - 1),
         v5 |-> at(0), v6 |-> at(1), v7 |-> at(2), v8 |-> at(3), v9 |-> at(4)]

\* Samples with v4 read at the centre, where v5 is read.
Samples_CentreTwice(array, evaluation_properties) ==
    LET at(k) == Double(array[downstream_stencil_size_ + evaluation_properties[1]
                              + k * evaluation_properties[2]])
    IN  [v1 |-> at(0 - 4), v2 |-> at(0 - 3), v3 |-> at(0 - 2), v4 |-> at(0),
         v5 |-> at(0), v6 |-> at(1), v7 |-> at(2), v8 |-> at(3), v9 |-> at(4)]

\* v1 .. v9: the samples the evaluation pair selects.
Samples(array, evaluation_properties) ==
    LET at(k) == Double(array[downstream_stencil_size_ + evaluation_properties[1]
                              + k * evaluation_properties[2]])
    IN  [v1 |-> at(0 - 4), v2 |-> at(0 - 3), v3 |-> at(0 - 2), v4 |-> at(0 - 1),
         v5 |-> at(0), v6 |-> at(1), v7 |-> at(2), v8 |-> at(3), v9 |-> at(4)]

\* The smoothness indicator with the coefficients coef_smoothness_<i>_ of the
\* five samples u1 .. u5, before epsilon is added.
SmoothnessIndicator(i, u1, u2, u3, u4, u5) ==
    LET c(n) == coef_smoothness(i, n)
        s_1 == Sum5(QMul(c(1), u1), QMul(c(2), u2), QMul(c(3), u3), QMul(c(4), u4),
                    QMul(c(5), u5))
        s_2 == Sum4(QMul(c(6), u2), QMul(c(7), u3), QMul(c(8), u4), QMul(c(9), u5))
        s_3 == Sum3(QMul(c(10), u3), QMul(c(11), u4), QMul(c(12), u5))
        s_4 == QAdd(QMul(c(13), u4), QMul(c(14), u5))
        s_5 == QMul(c(15), u5)
    IN  Sum5(QMul(u1, s_1), QMul(u2, s_2), QMul(u3, s_3), QMul(u4, s_4), QMul(u5, s_5))

\* Smoothness indicators with s5 taken from v4 .. v8, one sample early.
SmoothnessIndicators_Shifted(v) ==
    [s1 |-> SmoothnessIndicator(0, v.v1, v.v2, v.v3, v.v4, v.v5),
     s2 |-> SmoothnessIndicator(1, v.v2, v.v3, v.v4, v.v5, v.v6),
     s3 |-> SmoothnessIndicator(2, v.v3, v.v4, v.v5, v.v6, v.v7),
     s4 |-> SmoothnessIndicator(3, v.v4, v.v5, v.v6, v.v7, v.v8),
     s5 |-> SmoothnessIndicator(4, v.v4, v.v5, v.v6, v.v7, v.v8)]

SmoothnessIndicators(v) ==
    [s1 |-> SmoothnessIndicator(0, v.v1, v.v2, v.v3, v.v4, v.v5),
     s2 |-> SmoothnessIndicator(1, v.v2, v.v3, v.v4, v.v5, v.v6),
     s3 |-> SmoothnessIndicator(2, v.v3, v.v4, v.v5, v.v6, v.v7),
     s4 |-> SmoothnessIndicator(3, v.v4, v.v5, v.v6, v.v7, v.v8),
     s5 |-> SmoothnessIndicator(4, v.v5, v.v6, v.v7, v.v8, v.v9)]

\* Weights with no epsilon added to the smoothness indicators.
Weights_NoEpsilon(s) ==
    LET a1 == QDiv(coef_weights(1), QMul(s.s1, s.s1))
        a2 == QDiv(coef_weights(2), QMul(s.s2, s.s2))
        a3 == QDiv(coef_weights(3), QMul(s.s3, s.s3))
        a4 == QDiv(coef_weights(4), QMul(s.s4, s.s4))
        a5 == QDiv(coef_weights(5), QMul(s.s5, s.s5))
        one_a_sum == QDiv(Double(1), Sum5(a1, a2, a3, a4, a5))
    IN  [w1 |-> QMul(a1, one_a_sum), w2 |-> QMul(a2, one_a_sum),
         w3 |-> QMul(a3, one_a_sum), w4 |-> QMul(a4, one_a_sum),
         w5 |-> QMul(a5, one_a_sum)]

\* Weights with a_i = coef_weights_i / s_i, the indicator not squared.
Weights_NotSquared(s) ==
    LET a1 == QDiv(coef_weights(1), QAdd(s.s1, epsilon_weno9_))
        a2 == QDiv(coef_weights(2), QAdd(s.s2, epsilon_weno9_))
        a3 == QDiv(coef_weights(3), QAdd(s.s3, epsilon_weno9_))
        a4 == QDiv(coef_weights(4), QAdd(s.s4, epsilon_weno9_))
        a5 == QDiv(coef_weights(5), QAdd(s.s5, epsilon_weno9_))
        one_a_sum == QDiv(Double(1), Sum5(a1, a2, a3, a4, a5))
    IN  [w1 |-> QMul(a1, one_a_sum), w2 |-> QMul(a2, one_a_sum),
         w3 |-> QMul(a3, one_a_sum), w4 |-> QMul(a4, one_a_sum),
         w5 |-> QMul(a5, one_a_sum)]

\* Weights left unnormalized: w_i = a_i.
Weights_Unnormalized(s) ==
    LET s1 == QAdd(s.s1, epsilon_weno9_)
        s2 == QAdd(s.s2, epsilon_weno9_)
        s3 == QAdd(s.s3, epsilon_weno9_)
        s4 == QAdd(s.s4, epsilon_weno9_)
        s5 == QAdd(s.s5, epsilon_weno9_)
    IN  [w1 |-> QDiv(coef_weights(1), QMul(s1, s1)),
         w2 |-> QDiv(coef_weights(2), QMul(s2, s2)),
         w3 |-> QDiv(coef_weights(3), QMul(s3, s3)),
         w4 |-> QDiv(coef_weights(4), QMul(s4, s4)),
         w5 |-> QDiv(coef_weights(5), QMul(s5, s5))]

\* w1 .. w5 from the smoothness indicators.
Weights(s) ==
    LET s1 == QAdd(s.s1, epsilon_weno9_)
        s2 == QAdd(s.s2, epsilon_weno9_)
        s3 == QAdd(s.s3, epsilon_weno9_)
        s4 == QAdd(s.s4, epsilon_weno9_)
        s5 == QAdd(s.s5, epsilon_weno9_)
        a1 == QDiv(coef_weights(1), QMul(s1, s1))
        a2 == QDiv(coef_weights(2), QMul(s2, s2))
        a3 == QDiv(coef_weights(3), QMul(s3, s3))
        a4 == QDiv(coef_weights(4), QMul(s4, s4))
        a5 == QDiv(coef_weights(5), QMul(s5, s5))
        one_a_sum == QDiv(Double(1), Sum5(a1, a2, a3, a4, a5))
    IN  [w1 |-> QMul(a1, one_a_sum), w2 |-> QMul(a2, one_a_sum),
         w3 |-> QMul(a3, one_a_sum), w4 |-> QMul(a4, one_a_sum),
         w5 |-> QMul(a5, one_a_sum)]

\* The polynomial estimate of sub-stencil i = 1..5 from its samples u1 .. u5.
StencilEstimate(i, u1, u2, u3, u4, u5) ==
    LET c(n) == coef_stencils(5 * (i - 1) + n)
    IN  Sum5(QMul(c(1), u1), QMul(c(2), u2), QMul(c(3), u3), QMul(c(4), u4),
             QMul(c(5), u5))

StencilEstimates(v) ==
    [r1 |-> StencilEstimate(1, v.v1, v.v2, v.v3, v.v4, v.v5),
     r2 |-> StencilEstimate(2, v.v2, v.v3, v.v4, v.v5, v.v6),
     r3 |-> StencilEstimate(3, v.v3, v.v4, v.v5, v.v6, v.v7),
     r4 |-> StencilEstimate(4, v.v4, v.v5, v.v6, v.v7, v.v8),
     r5 |-> StencilEstimate(5, v.v5, v.v6, v.v7, v.v8, v.v9)]

WeightedAverage(w, r) ==
    Sum5(QMul(w.w1, r.r1), QMul(w.w2, r.r2), QMul(w.w3, r.r3), QMul(w.w4, r.r4),
         QMul(w.w5, r.r5))

\* array.size()
Size(array) == Cardinality(DOMAIN array)

\* The kernel with its result scaled by the cell size.
ApplyImplementation_Scaled(array, evaluation_properties, cell_size) ==
    IF ~PERFORMANCE /\ Size(array) < stencil_size_
    THEN Throw("logic_error")
    ELSE LET v == Samples(array, evaluation_properties)
         IN  [kind |-> "value",
              value |-> QMul(Double(cell_size),
                             WeightedAverage(Weights(SmoothnessIndicators(v)),
                                             StencilEstimates(v)))]

ApplyImplementation(array, evaluation_properties, cell_size) ==
    IF ~PERFORMANCE /\ Size(array) < stencil_size_
    THEN Throw("logic_error")
    ELSE LET v == Samples(array, evaluation_properties)
         IN  [kind |-> "value",
              value |-> WeightedAverage(Weights(SmoothnessIndicators(v)),
                                        StencilEstimates(v))]

\* The kernel is not called.
NoResult == [kind |-> "none"]

KernelIdle ==
    /\ window = [j \in 0..(stencil_size_ - 1) |-> 0]
    /\ properties = <<0, 1>>
    /\ spacing = 1
    /\ kernel_pc = "idle"
    /\ face = NoResult

\* The windows tried: a line, with at most one sample moved off it.
Windows ==
    {[j \in 0..(stencil_size_ - 1) |-> a + b * j + IF j = k THEN d ELSE 0] :
        a \in 0..MaxIntercept, b \in (0 - MaxSlope)..MaxSlope,
        k \in 0..(stencil_size_ - 1), d \in 0..MaxBump}

\* The evaluation pairs of the kernel contract: the face on either side.
EvaluationProperties == {<<0, 1>>, <<0, 0 - 1>>}

CellSizes == {1, 2}

\* A caller has sliced a window and is about to call the kernel.
KernelCalled ==
    /\ window \in Windows
    /\ properties \in EvaluationProperties
    /\ spacing \in CellSizes
    /\ kernel_pc = "called"
    /\ face = NoResult

\* The block of a specification that only follows the kernel.
BlockIdle ==
    /\ PERFORMANCE \in BOOLEAN
    /\ InterfaceParameterModelActive = FALSE
    /\ pc = "raw"
    /\ block = RawBlock([c \in Cells |-> 0])
    /\ ctor = [variant |-> "none"]
    /\ written = {}
    /\ last = NoCall
    /\ lastWrite = NoWrite
    /\ nwrites = 0

Apply ==
    /\ kernel_pc = "called"
    /\ face' = ApplyImplementation(window, properties, spacing)
    /\ kernel_pc' = "returned"
    /\ UNCHANGED <<window, properties, spacing>>
    /\ UNCHANGED blockVars
    /\ UNCHANGED readerVars
    /\ UNCHANGED threadVars

(***************************************************************************)
(* Concurrent invocations of the kernel.  Threads call the kernel on       *)
(* windows sliced from one field buffer; an invocation first reads its     *)
(* samples into its automatic variables and then computes on them, and the *)
(* steps of different invocations interleave.                              *)
(***************************************************************************)
Threads == 1..NumThreads

\* The field buffers tried: all 0 but for one sample.
Fields ==
    {[j \in 0..(stencil_size_ + MaxStart - 1) |-> IF j = k THEN 1 ELSE 0] :
        k \in {downstream_stencil_size_, downstream_stencil_size_ + 1}}

\* The window of stencil_size_ samples that starts at index start of a buffer.
Slice(buffer, start) == [j \in 0..(stencil_size_ - 1) |-> buffer[start + j]]

\* The storage of the automatic variables v1 .. v9 of thread t's invocation,
\* all threads using one storage.
Scratch_Shared(t) == 1

\* The storage of the automatic variables v1 .. v9 of thread t's invocation:
\* its own.
Scratch(t) == t

\* The kernel from the smoothness indicators on, on the samples v.
Blend(v) == WeightedAverage(Weights(SmoothnessIndicators(v)), StencilEstimates(v))

NoSamples == [kind |-> "none"]

ThreadsIdle ==
    /\ field = [j \in 0..(stencil_size_ + MaxStart - 1) |-> 0]
    /\ thread_pc = [t \in Threads |-> "idle"]
    /\ thread_args = [t \in Threads |-> [start |-> 0, properties |-> <<0, 1>>]]
    /\ scratch = [t \in Threads |-> NoSamples]
    /\ thread_result = [t \in Threads |-> NoResult]
    /\ calls = [t \in Threads |-> 0]

\* The threads are about to work on a field buffer.
ThreadsStarted ==
    /\ field \in Fields
    /\ thread_pc = [t \in Threads |-> "idle"]
    /\ thread_args = [t \in Threads |-> [start |-> 0, properties |-> <<0, 1>>]]
    /\ scratch = [t \in Threads |-> NoSamples]
    /\ thread_result = [t \in Threads |-> NoResult]
    /\ calls = [t \in Threads |-> 0]

\* Thread t calls the kernel, for the first time or again.
ThreadCall(t) ==
    /\ thread_pc[t] \in {"idle", "returned"}
    /\ calls[t] < MaxCalls
    /\ \E start \in 0..MaxStart, evaluation_properties \in EvaluationProperties :
           thread_args' = [thread_args EXCEPT
                              ![t] = [start |-> start, properties |-> evaluation_properties]]
    /\ thread_pc' = [thread_pc EXCEPT ![t] = "called"]
    /\ thread_result' = [thread_result EXCEPT ![t] = NoResult]
    /\ calls' = [calls EXCEPT ![t] = @ + 1]
    /\ UNCHANGED <<field, scratch>>
    /\ UNCHANGED <<blockVars, kernelVars, readerVars>>

\* Thread t's invocation reads v1 .. v9 from its window.
ThreadRead(t) ==
    /\ thread_pc[t] = "called"
    /\ scratch' = [scratch EXCEPT
                      ![Scratch(t)] = Samples(Slice(field, thread_args[t].start),
                                              thread_args[t].properties)]
    /\ thread_pc' = [thread_pc EXCEPT ![t] = "sampled"]
    /\ UNCHANGED <<field, thread_args, thread_result, calls>>
    /\ UNCHANGED <<blockVars, kernelVars, readerVars>>

\* Thread t's invocation computes on its samples and returns.
ThreadReturn(t) ==
    /\ thread_pc[t] = "sampled"
    /\ thread_result' = [thread_result EXCEPT
                            ![t] = [kind |-> "value", value |-> Blend(scratch[Scratch(t)])]]
    /\ thread_pc' = [thread_pc EXCEPT ![t] = "returned"]
    /\ UNCHANGED <<field, thread_args, scratch, calls>>
    /\ UNCHANGED <<blockVars, kernelVars, readerVars>>

(***************************************************************************)
(* XmlMultiResolutionReader.  The input file is modelled by what its nodes *)
(* hold: every node the reader asks for is present and holds a number or   *)
(* text that is no number.                                                 *)
(***************************************************************************)
Direction == {"X", "Y", "Z"}

XmlPaths ==
    {<<"configuration", "domain", "nodeSize">>,
     <<"configuration", "domain", "nodeRatio", "x">>,
     <<"configuration", "domain", "nodeRatio", "y">>,
     <<"configuration", "domain", "nodeRatio", "z">>,
     <<"configuration", "multiResolution", "maximumLevel">>,
     <<"configuration", "multiResolution", "refinementCriterion",
       "levelOfEpsilonReference">>,
     <<"configuration", "multiResolution", "refinementCriterion", "epsilonReference">>}

NodeContents ==
    {[kind |-> "number", value |-> n] : n \in (0 - MaxNode)..1}
    \cup {[kind |-> "text"]}

\* XmlUtilities::GetChild: the node at the end of a path of child names.
GetChild(doc, path) == doc[path]

\* XmlUtilities::ReadDouble and ReadInt: the number a node holds; a node
\* that holds no number of the type is an error.
ReadDouble(node) ==
    IF node.kind = "number" THEN [kind |-> "value", value |-> node.value]
    ELSE Throw("invalid_argument")

ReadInt(node) ==
    IF node.kind = "number" THEN [kind |-> "value", value |-> node.value]
    ELSE Throw("invalid_argument")

DoReadNodeSizeOnLevelZero ==
    LET node == GetChild(xml_input_file_, <<"configuration", "domain", "nodeSize">>)
    IN  ReadDouble(node)

\* DoReadNumberOfNodes with the component of Y taken for x.
DoReadNumberOfNodes_YAsX(direction) ==
    LET component == IF direction = "X" THEN "x"
                     ELSE IF direction = "Y" THEN "x"
                     ELSE "z"
        node == GetChild(xml_input_file_,
                         <<"configuration", "domain", "nodeRatio", component>>)
    IN  ReadInt(node)

DoReadNumberOfNodes(direction) ==
    LET component == IF direction = "X" THEN "x"
                     ELSE IF direction = "Y" THEN "y"
                     ELSE "z"
        node == GetChild(xml_input_file_,
                         <<"configuration", "domain", "nodeRatio", component>>)
    IN  ReadInt(node)

DoReadMaximumLevel ==
    LET level_node == GetChild(xml_input_file_,
                               <<"configuration", "multiResolution", "maximumLevel">>)
    IN  ReadInt(level_node)

DoReadEpsilonLevelReference ==
    LET level_node == GetChild(xml_input_file_,
                               <<"configuration", "multiResolution",
                                 "refinementCriterion", "levelOfEpsilonReference">>)
    IN  ReadInt(level_node)

DoReadEpsilonReference ==
    LET epsilon_node == GetChild(xml_input_file_,
                                 <<"configuration", "multiResolution",
                                   "refinementCriterion", "epsilonReference">>)
    IN  ReadDouble(epsilon_node)

\* No read operation was called.
NoRead == [op |-> "none"]

\* A specification that does not follow the reader.
ReaderIdle ==
    /\ xml_input_file_ = [path \in XmlPaths |-> [kind |-> "number", value |-> 0]]
    /\ reading = NoRead

\* The reader was constructed on an opened input file.
ReaderOpened ==
    /\ xml_input_file_ \in [XmlPaths -> NodeContents]
    /\ reading = NoRead

ReadNodeSizeOnLevelZero ==
    /\ reading' = [op |-> "DoReadNodeSizeOnLevelZero", direction |-> "none",
                   result |-> DoReadNodeSizeOnLevelZero]
    /\ UNCHANGED <<xml_input_file_, blockVars, kernelVars, threadVars>>

ReadNumberOfNodes ==
    \E direction \in Direction \cup {OutOfRange} :
        /\ reading' = [op |-> "DoReadNumberOfNodes", direction |-> direction,
                       result |-> DoReadNumberOfNodes(direction)]
        /\ UNCHANGED <<xml_input_file_, blockVars, kernelVars, threadVars>>

ReadMaximumLevel ==
    /\ reading' = [op |-> "DoReadMaximumLevel", direction |-> "none",
                   result |-> DoReadMaximumLevel]
    /\ UNCHANGED <<xml_input_file_, blockVars, kernelVars, threadVars>>

ReadEpsilonReference ==
    /\ reading' = [op |-> "DoReadEpsilonReference", direction |-> "none",
                   result |-> DoReadEpsilonReference]
    /\ UNCHANGED <<xml_input_file_, blockVars, kernelVars, threadVars>>

ReadEpsilonLevelReference ==
    /\ reading' = [op |-> "DoReadEpsilonLevelReference", direction |-> "none",
                   result |-> DoReadEpsilonLevelReference]
    /\ UNCHANGED <<xml_input_file_, blockVars, kernelVars, threadVars>>

vars == <<blockVars, kernelVars, readerVars, threadVars>>

Init == InitBlock /\ KernelIdle /\ ReaderIdle /\ ThreadsIdle

\* Construction and accessor calls.
Next == ConstructFromField \/ ConstructFromScalar \/ CallAccessor \/ CallConstAccessor

Spec == Init /\ [][Next]_vars

\* Construction and external writes.
NextWrite == ConstructFromField \/ ConstructFromScalar \/ WriteThrough

SpecWrite == Init /\ [][NextWrite]_vars

\* Calls of the WENO9 kernel.
InitWENO9 == BlockIdle /\ KernelCalled /\ ReaderIdle /\ ThreadsIdle

NextWENO9 == Apply

SpecWENO9 == InitWENO9 /\ [][NextWENO9]_vars

\* Reads of an opened input file.
InitReader == BlockIdle /\ KernelIdle /\ ReaderOpened /\ ThreadsIdle

NextReader ==
    \/ ReadNodeSizeOnLevelZero
    \/ ReadNumberOfNodes
    \/ ReadMaximumLevel
    \/ ReadEpsilonReference
    \/ ReadEpsilonLevelReference

SpecReader == InitReader /\ [][NextReader]_vars

\* Concurrent invocations of the WENO9 kernel.
InitConcurrent == BlockIdle /\ KernelIdle /\ ReaderIdle /\ ThreadsStarted

NextConcurrent == \E t \in Threads : ThreadCall(t) \/ ThreadRead(t) \/ ThreadReturn(t)

SpecConcurrent == InitConcurrent /\ [][NextConcurrent]_vars

(***************************************************************************)
(* Construction.                                                           *)
(***************************************************************************)
Constructed(variant) == pc = "constructed" /\ ctor.variant = variant

\* C1: after construction from a level-set field F, in every cell the
\* right-hand side and the reinitialized level-set both equal F there, the
\* base level-set is 0, and the volume fraction is 0 in the base, right-hand
\* side and reinitialized buffers.
C1_FieldConstructor ==
    Constructed("field") =>
        \A c \in Cells :
            /\ block.right_hand_side_[FieldIndex("Levelset")][c] = ctor.levelset_initial[c]
            /\ block.reinitialized_[FieldIndex("Levelset")][c] = ctor.levelset_initial[c]
            /\ block.base_[FieldIndex("Levelset")][c] = 0
            /\ block.base_[FieldIndex("VolumeFraction")][c] = 0
            /\ block.right_hand_side_[FieldIndex("VolumeFraction")][c] = 0
            /\ block.reinitialized_[FieldIndex("VolumeFraction")][c] = 0

\* A block built from a field that differs from cell to cell and is nowhere 0.
C1_Witness ==
    /\ Constructed("field")
    /\ \E c1, c2 \in Cells : ctor.levelset_initial[c1] # ctor.levelset_initial[c2]
    /\ \A c \in Cells : ctor.levelset_initial[c] # 0

\* C2: after construction from a scalar v, every cell of the base volume
\* fraction is 1 when v > 0 and 0 when v <= 0 (v = 0 included), and every cell
\* of the base level-set is 0.
C2_ScalarConstructorBase ==
    Constructed("scalar") =>
        \A c \in Cells :
            /\ ctor.levelset_initial > 0 => block.base_[FieldIndex("VolumeFraction")][c] = 1
            /\ ctor.levelset_initial <= 0 => block.base_[FieldIndex("VolumeFraction")][c] = 0
            /\ block.base_[FieldIndex("Levelset")][c] = 0

\* A block built from the scalar 0, the boundary of the sign test.
C2_Witness == Constructed("scalar") /\ ctor.levelset_initial = 0

\* C3: after construction from a scalar v, every cell of the right-hand side
\* and of the reinitialized level-set equals v, and every cell of the
\* right-hand side and of the reinitialized volume fraction is 0.
C3_ScalarConstructorCopies ==
    Constructed("scalar") =>
        \A c \in Cells :
            /\ block.right_hand_side_[FieldIndex("Levelset")][c] = ctor.levelset_initial
            /\ block.reinitialized_[FieldIndex("Levelset")][c] = ctor.levelset_initial
            /\ block.right_hand_side_[FieldIndex("VolumeFraction")][c] = 0
            /\ block.reinitialized_[FieldIndex("VolumeFraction")][c] = 0

\* A block built from a negative scalar.
C3_Witness == Constructed("scalar") /\ ctor.levelset_initial < 0

\* C4: after either constructor every cell of both initial buffers and of
\* every interface-state buffer is 0; with the interface-parameter model
\* active every cell of every parameter buffer is 0, and without it the
\* constructor writes no parameter storage at all.
C4_ZeroedBuffers ==
    pc = "constructed" =>
        /\ \A d \in InterfaceDescription, c \in Cells :
                block.initial_[FieldIndex(d)][c] = 0
        /\ \A s \in InterfaceState, c \in Cells : block.states_[FieldIndex(s)][c] = 0
        /\ InterfaceParameterModelActive =>
                \A p \in InterfaceParameter :
                    /\ FieldIndex(p) \in DOMAIN block.parameters_
                    /\ \A c \in Cells : block.parameters_[FieldIndex(p)][c] = 0
        /\ ~InterfaceParameterModelActive =>
                \A target \in written : target.set # "parameters_"

\* A block built from a field with the interface-parameter model inactive.
C4_Witness == Constructed("field") /\ ~InterfaceParameterModelActive

(***************************************************************************)
(* Accessors.                                                              *)
(***************************************************************************)
\* The paths that ask for each buffer.
PathsAsking == [ref \in {Asked(path) : path \in AccessPaths} |->
                   {path \in AccessPaths : Asked(path) = ref}]

\* C5: the accessors return live references, not copies: a value written to
\* a cell through the reference one accessor gave for a buffer is read at
\* that cell through every accessor path that asks for the same buffer.
C5_AccessorsAlias ==
    (lastWrite # NoWrite /\ lastWrite.asked.set # "none") =>
        \A path \in PathsAsking[lastWrite.asked] :
            LET ref == Resolve(path) IN
            (ref.kind = "buffer" /\ Exists(block, ref)) =>
                Read(block, ref, lastWrite.cell) = lastWrite.value

\* Two writes were made, the second a nonzero value to the base level-set.
C5_Witness ==
    /\ nwrites = MaxWrites
    /\ lastWrite # NoWrite
    /\ lastWrite.asked = BufferRef("base_", FieldIndex("Levelset"))
    /\ lastWrite.value # 0

DirectBuffers(roles) ==
    {GetFieldBuffer("Description", FieldIndex(d), bt) :
        d \in InterfaceDescription, bt \in roles}
    \cup {GetInterfaceStateBuffer(s) : s \in InterfaceState}
    \cup {GetInterfaceParameterBuffer(p) : p \in InterfaceParameter}

Identifiers == InterfaceBlockBufferType \cup {OutOfRange}

\* C6 as stated: GetBuffer reaches every buffer the direct accessors reach,
\* the initial buffers included.
C6_AsStated ==
    pc = "constructed" =>
        \A buffer \in DirectBuffers(InterfaceDescriptionBufferType) :
            \E id \in Identifiers : GetBuffer(id) = buffer

\* C6: GetBuffer has an identifier for every base, right-hand side and
\* reinitialized description buffer, for every interface-state buffer and for
\* the surface-tension-coefficient parameter buffer, and no identifier makes
\* it return an initial buffer.
C6_GetBufferSpan ==
    pc = "constructed" =>
        /\ \A buffer \in DirectBuffers({"Base", "RightHandSide", "Reinitialized"}) :
                \E id \in InterfaceBlockBufferType : GetBuffer(id) = buffer
        /\ \A id \in Identifiers :
                GetBuffer(id).kind = "buffer" => GetBuffer(id).set # "initial_"

\* GetBuffer was called and returned the reinitialized volume fraction.
C6_Witness ==
    /\ pc = "constructed"
    /\ last # NoCall
    /\ last.call.acc = "GetBuffer"
    /\ last.result = GetReinitializedBuffer("VolumeFraction")

\* The calls that ask for parameter storage.
IsParameterRequest(call) ==
    \/ call.acc \in {"GetInterfaceParameterBuffer", "GetInterfaceParameterBufferSet"}
    \/ call.acc = "GetFieldBuffer" /\ call.args[1] = "Parameters"
    \/ call.acc = "GetBuffer" /\ call.args[1] = "InterfaceParameterSurfaceTensionCoefficient"

\* C7: in a checked build with the interface-parameter model inactive, a
\* request for a parameter buffer fails with an error and returns no storage.
C7_CheckedParameterRequestFails ==
    (/\ pc = "constructed"
     /\ ~PERFORMANCE
     /\ ~InterfaceParameterModelActive
     /\ last # NoCall
     /\ IsParameterRequest(last.call)) => last.result.kind = "throw"

\* C8: in a performance build a GetBuffer request for a buffer that the
\* active feature configuration does not hold raises no error and returns a
\* reference to existing storage.
C8_PerformanceFallbackExists ==
    (/\ pc = "constructed"
     /\ PERFORMANCE
     /\ ~InterfaceParameterModelActive
     /\ last # NoCall
     /\ last.call.acc = "GetBuffer"
     /\ last.call.args[1] = "InterfaceParameterSurfaceTensionCoefficient") =>
        /\ last.result.kind = "buffer"
        /\ Exists(block, last.result)

(***************************************************************************)
(* WENO9.                                                                  *)
(***************************************************************************)
IsAffine(array) ==
    \A j \in 1..(stencil_size_ - 1) : array[j] - array[j - 1] = array[1] - array[0]

\* The line through the window's samples, read at the face the evaluation
\* pair selects: half a stride past the centre sample.
AffineFace(array, evaluation_properties) ==
    QAdd(Double(array[0]),
         QMul(Double(array[1] - array[0]),
              QFrac(2 * (downstream_stencil_size_ + evaluation_properties[1])
                    + evaluation_properties[2], 2)))

IsFlat(array) == \A j \in DOMAIN array : array[j] = array[0]

Reversed(array) == [j \in DOMAIN array |-> array[stencil_size_ - 1 - j]]

\* The evaluation pair of the opposite polarity.
Negated(evaluation_properties) ==
    <<0 - evaluation_properties[1], 0 - evaluation_properties[2]>>

Alpha(d, beta) ==
    LET shifted == QAdd(beta, epsilon_weno9_)
    IN  QDiv(d, QMul(shifted, shifted))

\* sum_i w_i * R_i with w_i = alpha_i / (alpha_1 + .. + alpha_5), from the
\* indicators beta and the estimates R of the five sub-stencils.
BlendedValue(beta, R) ==
    LET alpha1 == Alpha(coef_weights(1), beta.s1)
        alpha2 == Alpha(coef_weights(2), beta.s2)
        alpha3 == Alpha(coef_weights(3), beta.s3)
        alpha4 == Alpha(coef_weights(4), beta.s4)
        alpha5 == Alpha(coef_weights(5), beta.s5)
        total == Sum5(alpha1, alpha2, alpha3, alpha4, alpha5)
    IN  Sum5(QMul(QDiv(alpha1, total), R.r1), QMul(QDiv(alpha2, total), R.r2),
             QMul(QDiv(alpha3, total), R.r3), QMul(QDiv(alpha4, total), R.r4),
             QMul(QDiv(alpha5, total), R.r5))

\* C18: the value the kernel returns is sum_i w_i * R_i, where
\* w_i = alpha_i / (alpha_1 + .. + alpha_5), alpha_i = d_i / (beta_i + epsilon)^2
\* with the linear weight d_i, beta_i the smoothness indicator and R_i the
\* linear estimate of sub-stencil i; epsilon is in every divisor.
C18_BlendFormula ==
    kernel_pc = "returned" =>
        LET v == Samples(window, properties)
        IN  /\ face.kind = "value"
            /\ QEq(face.value, BlendedValue(SmoothnessIndicators(v), StencilEstimates(v)))

\* The kernel has returned from a window that is not a line, where the
\* smoothness indicators of the sub-stencils differ.
C18_Witness ==
    /\ kernel_pc = "returned"
    /\ face.kind = "value"
    /\ ~IsAffine(window)
    /\ LET s == SmoothnessIndicators(Samples(window, properties))
       IN  ~QEq(s.s1, s.s5)

\* The samples v with sample k = 1..9 moved by one.
Perturbed(v, k) ==
    CASE k = 1 -> [v EXCEPT !.v1 = QAdd(@, QInt(1))]
      [] k = 2 -> [v EXCEPT !.v2 = QAdd(@, QInt(1))]
      [] k = 3 -> [v EXCEPT !.v3 = QAdd(@, QInt(1))]
      [] k = 4 -> [v EXCEPT !.v4 = QAdd(@, QInt(1))]
      [] k = 5 -> [v EXCEPT !.v5 = QAdd(@, QInt(1))]
      [] k = 6 -> [v EXCEPT !.v6 = QAdd(@, QInt(1))]
      [] k = 7 -> [v EXCEPT !.v7 = QAdd(@, QInt(1))]
      [] k = 8 -> [v EXCEPT !.v8 = QAdd(@, QInt(1))]
      [] k = 9 -> [v EXCEPT !.v9 = QAdd(@, QInt(1))]

\* The indicators s and the estimates r as sequences over i = 1..5.
PerSubStencil(s, r) ==
    [indicator |-> <<s.s1, s.s2, s.s3, s.s4, s.s5>>,
     estimate |-> <<r.r1, r.r2, r.r3, r.r4, r.r5>>]

\* Sample k belongs to sub-stencil i = {v_i, .., v_(i+4)}.
InSubStencil(k, i) == i <= k /\ k <= i + 4

\* C19: for the samples of every kernel call, moving a sample v_k changes
\* neither the smoothness indicator nor the polynomial estimate of any
\* sub-stencil i = 1..5 that does not contain it (k < i or k > i + 4), and
\* moving the first sample of sub-stencil i does change its estimate.
C19_SubStencilLocality ==
    kernel_pc = "returned" =>
        LET v == Samples(window, properties)
            here == PerSubStencil(SmoothnessIndicators(v), StencilEstimates(v))
        IN  \A k \in 1..stencil_size_ :
                LET u == Perturbed(v, k)
                    there == PerSubStencil(SmoothnessIndicators(u), StencilEstimates(u))
                IN  \A i \in 1..5 :
                        /\ ~InSubStencil(k, i) =>
                               /\ QEq(there.indicator[i], here.indicator[i])
                               /\ QEq(there.estimate[i], here.estimate[i])
                        /\ k = i => ~QEq(there.estimate[i], here.estimate[i])

\* The kernel has returned from a window whose first and last samples, each
\* in one sub-stencil only, differ from their neighbours.
C19_Witness ==
    /\ kernel_pc = "returned"
    /\ face.kind = "value"
    /\ window[0] # window[1]
    /\ window[stencil_size_ - 1] # window[stencil_size_ - 2]

\* Offsets and strides tried when asking which pairs keep the reads inside
\* the window: -MaxPair .. MaxPair.
MaxPair == 1

\* The window index of sample v_k, k = 1..9.
SampleIndex(k, evaluation_properties) ==
    downstream_stencil_size_ + evaluation_properties[1]
        + (k - 5) * evaluation_properties[2]

\* The nine indices are distinct and inside the window.
ReadsInside(array, evaluation_properties) ==
    /\ \A k \in 1..stencil_size_ : SampleIndex(k, evaluation_properties) \in DOMAIN array
    /\ \A k, l \in 1..stencil_size_ :
           k # l => SampleIndex(k, evaluation_properties) # SampleIndex(l, evaluation_properties)

IsWrite == nwrites' = nwrites + 1

\* C14: no operation of the core copies the right-hand side into the base.
\* After construction from a field F and before any external write the base
\* level-set is 0 in every cell while the right-hand side level-set is F;
\* and every step on a constructed block that changes a base buffer is an
\* external write through a reference asked for as a base buffer, changing
\* the written cell only (a write asked for as right-hand side, or any other
\* buffer, leaves the base as it was).
C14_BaseChangesByExternalWriteOnly ==
    /\ [](Constructed("field") /\ nwrites = 0 =>
            \A c \in Cells :
                /\ block.base_[FieldIndex("Levelset")][c] = 0
                /\ block.right_hand_side_[FieldIndex("Levelset")][c]
                       = ctor.levelset_initial[c])
    /\ [][(pc = "constructed" /\ block'.base_ # block.base_) =>
            /\ IsWrite
            /\ lastWrite'.asked.set = "base_"
            /\ block'.base_ = [block.base_ EXCEPT
                                  ![lastWrite'.asked.index][lastWrite'.cell] =
                                      lastWrite'.value]]_vars

\* A block built from a field that is nowhere 0 has had its right-hand side
\* level-set written twice from outside, and its base level-set is still 0.
C14_Witness ==
    /\ Constructed("field")
    /\ \A c \in Cells : ctor.levelset_initial[c] # 0
    /\ nwrites = MaxWrites
    /\ lastWrite # NoWrite
    /\ lastWrite.asked = BufferRef("right_hand_side_", FieldIndex("Levelset"))
    /\ lastWrite.value # ctor.levelset_initial[lastWrite.cell]
    /\ \A c \in Cells : block.base_[FieldIndex("Levelset")][c] = 0

ConstructorBody ==
    IF ctor.variant = "field" THEN InterfaceBlockField(ctor.levelset_initial)
    ELSE InterfaceBlockScalar(ctor.levelset_initial)

\* The statements stmts raise nothing on blk and write every buffer of it in
\* full: each buffer is the target of a statement, alone or with its set.
WritesEveryBuffer(blk, stmts) ==
    /\ \A target \in Targets(stmts) : target.kind # "throw" /\ Exists(blk, target)
    /\ \A set \in MemberNames :
           \A i \in DOMAIN blk[set] :
               SetRef(set) \in Targets(stmts) \/ BufferRef(set, i) \in Targets(stmts)

\* A value no constructor writes: what a cell of marked storage still holds
\* when no statement wrote it.
Untouched == MaxVal + 1

\* C16: both constructors are total.  From raw storage, for every field F
\* and every scalar v, no statement of either constructor raises and every
\* buffer the block owns (description, state, and parameter when enabled) is
\* the target of one; and in a constructed block no cell holds what the
\* storage held before: run on storage marked Untouched in every cell, the
\* constructor leaves no cell Untouched and builds the same block.
C16_ConstructorsTotal ==
    /\ pc = "raw" =>
           /\ \A F \in [Cells -> Vals] : WritesEveryBuffer(block, InterfaceBlockField(F))
           /\ \A v \in Vals : WritesEveryBuffer(block, InterfaceBlockScalar(v))
    /\ pc = "constructed" =>
           /\ written = Targets(ConstructorBody)
           /\ WritesEveryBuffer(block, ConstructorBody)
           /\ LET marked == Execute(RawBlock([c \in Cells |-> Untouched]), ConstructorBody)
              IN  /\ \A set \in MemberNames :
                         \A i \in DOMAIN marked[set] :
                             \A c \in Cells : marked[set][i][c] # Untouched
                  /\ marked = block

\* A block with parameter buffers built by the scalar constructor from a
\* negative scalar, one of whose state buffers has since been asked for.
C16_Witness ==
    /\ Constructed("scalar")
    /\ InterfaceParameterModelActive
    /\ ctor.levelset_initial < 0
    /\ last # NoCall
    /\ last.call = Call("GetInterfaceStateBuffer", <<"Velocity">>)

(***************************************************************************)
(* XmlMultiResolutionReader.                                               *)
(***************************************************************************)
\* The node each read operation is for.
NodeOf(op, direction) ==
    CASE op = "DoReadNodeSizeOnLevelZero" -> <<"configuration", "domain", "nodeSize">>
      [] op = "DoReadNumberOfNodes" ->
            <<"configuration", "domain", "nodeRatio">>
            \o CASE direction = "X" -> <<"x">>
                 [] direction = "Y" -> <<"y">>
                 [] OTHER -> <<"z">>
      [] op = "DoReadMaximumLevel" ->
            <<"configuration", "multiResolution", "maximumLevel">>
      [] op = "DoReadEpsilonReference" ->
            <<"configuration", "multiResolution", "refinementCriterion",
              "epsilonReference">>
      [] op = "DoReadEpsilonLevelReference" ->
            <<"configuration", "multiResolution", "refinementCriterion",
              "levelOfEpsilonReference">>

Alone ==
    [buffer \in Fields |->
        [start \in 0..MaxStart |->
            [evaluation_properties \in EvaluationProperties |->
                Blend(Samples(Slice(buffer, start), evaluation_properties))]]]

\* C13: the kernel is stateless and free of side effects.  However the steps
\* of concurrent invocations on windows of one field buffer interleave, and
\* whether an invocation is a thread's first or a repeated one, what it
\* returns is what the kernel returns alone for its window and evaluation
\* pair; the samples it holds are those of its own window; and no step of an
\* invocation changes the field buffer.
C13_InvocationsIndependent ==
    /\ [](\A t \in Threads :
            /\ thread_pc[t] = "sampled" =>
                   scratch[Scratch(t)] = Samples(Slice(field, thread_args[t].start),
                                                 thread_args[t].properties)
            /\ thread_pc[t] = "returned" =>
                   /\ thread_result[t].kind = "value"
                   /\ thread_result[t].value
                          = Alone[field][thread_args[t].start][thread_args[t].properties])
    /\ [][field' = field]_vars

\* Two threads have each returned from a repeated invocation, on overlapping
\* windows with opposite evaluation pairs, with different values.
C13_Witness ==
    /\ \A t \in Threads : thread_pc[t] = "returned" /\ calls[t] = MaxCalls
    /\ thread_args[1].start # thread_args[2].start
    /\ thread_args[1].properties # thread_args[2].properties
    /\ thread_result[1] # thread_result[2]

(***************************************************************************)
(* What the kernel's result depends on.                                    *)
(***************************************************************************)
\* The calls that select the samples v: the window and the evaluation pair.
Selecting(v) ==
    {call \in Windows \X EvaluationProperties : Samples(call[1], call[2]) = v}

\* The value computed from each tuple of selected samples, without a window,
\* a cell size or a build.
FaceOfSamples ==
    [v \in {Samples(array, pair) : array \in Windows, pair \in EvaluationProperties} |->
        Blend(v)]

IsConstCall(l) == "const" \in DOMAIN l

\* The state holds the result of a GetBuffer call with an identifier that is
\* none of the enumerators.
OutOfRangeRequest(l) ==
    /\ l # NoCall
    /\ l.call.acc = "GetBuffer"
    /\ l.call.args[1] \notin InterfaceBlockBufferType

\* C22: in the checked build a call of GetBuffer, const or not, with an
\* identifier that is none of the ten enumerators returns no buffer but throws
\* std::invalid_argument, and the step of the call leaves every buffer of the
\* block as it was.
C22_CheckedOutOfRangeThrows ==
    [][(~PERFORMANCE /\ OutOfRangeRequest(last')) =>
            /\ last'.result = Throw("invalid_argument")
            /\ block' = block
            /\ GetBuffer(last'.call.args[1]) = Throw("invalid_argument")
            /\ GetBufferConst(last'.call.args[1]) = Throw("invalid_argument")]_vars

\* In a checked build the const GetBuffer was called with an identifier out
\* of range, on a block built from a scalar above 0, and threw.
C22_Witness ==
    /\ ~PERFORMANCE
    /\ Constructed("scalar")
    /\ ctor.levelset_initial > 0
    /\ OutOfRangeRequest(last)
    /\ IsConstCall(last)
    /\ last.result.kind = "throw"

\* The identifiers with a case of their own in both builds: the six
\* description identifiers and the three state identifiers.
CasedIdentifiers ==
    {"LevelsetBase", "VolumeFractionBase", "LevelsetRightHandSide",
     "VolumeFractionRightHandSide", "LevelsetReinitialized",
     "VolumeFractionReinitialized", "InterfaceStateVelocity",
     "InterfaceStatePressurePositive", "InterfaceStatePressureNegative"}

\* The last write went through what GetBuffer returns for an identifier
\* outside the cased ones.
WroteThroughFallback ==
    /\ lastWrite # NoWrite
    /\ \E id \in Identifiers \ CasedIdentifiers : lastWrite.through = GetBuffer(id)

\* C23: in the performance build GetBuffer, const or not, returns for every
\* identifier other than the six description and the three state identifiers
\* the reference that GetInterfaceParameterBuffer(SurfaceTensionCoefficient)
\* returns, and a value written to a cell through it is read at that cell
\* through GetInterfaceParameterBuffer(SurfaceTensionCoefficient).
C23_PerformanceFallbackAliases ==
    (PERFORMANCE /\ pc = "constructed") =>
        /\ \A id \in Identifiers \ CasedIdentifiers :
                /\ GetBuffer(id) = GetInterfaceParameterBuffer("SurfaceTensionCoefficient")
                /\ GetBufferConst(id) =
                        GetInterfaceParameterBufferConst("SurfaceTensionCoefficient")
        /\ WroteThroughFallback =>
                /\ Read(block, GetInterfaceParameterBuffer("SurfaceTensionCoefficient"),
                        lastWrite.cell) = lastWrite.value
                /\ Read(block, GetInterfaceParameterBufferConst("SurfaceTensionCoefficient"),
                        lastWrite.cell) = lastWrite.value

\* In a performance build a nonzero value was written through the reference
\* GetBuffer gave for an identifier that is none of the enumerators.
C23_Witness ==
    /\ PERFORMANCE
    /\ WroteThroughFallback
    /\ lastWrite.asked = Asked([call |-> Call("GetBuffer", <<OutOfRange>>), sub |-> "none"])
    /\ lastWrite.through.set = "parameters_"
    /\ lastWrite.value # 0

(***************************************************************************)
(* The description sets by role.                                           *)
(***************************************************************************)
\* The member the run-time variant is to return for a value of the role type.
RoleSet(buffer_type) ==
    IF buffer_type \in {"RightHandSide", "Reinitialized", "Base"}
    THEN SetRef(RoleMember(buffer_type))
    ELSE SetRef("initial_")

\* C24: GetInterfaceDescriptionBuffer(buffer_type), const or not, returns the
\* right-hand side set for RightHandSide, the reinitialized set for
\* Reinitialized, the base set for Base and the initial set for every other
\* value, Initial included; GetInterfaceDescriptionBuffer<role>(), const or
\* not, returns for each of the four roles the set the run-time variant
\* returns for that role.
C24_DescriptionSetByRole ==
    (pc = "constructed" /\ last # NoCall) =>
        /\ last.call.acc = "GetInterfaceDescriptionBuffer" =>
                /\ last.result = RoleSet(last.call.args[1])
                /\ last.call.args[1] = "RightHandSide" =>
                        last.result = GetRightHandSideBufferSet
                /\ last.call.args[1] = "Reinitialized" =>
                        last.result = GetReinitializedBufferSet
                /\ last.call.args[1] = "Base" => last.result = GetBaseBufferSet
                /\ last.call.args[1] \notin {"RightHandSide", "Reinitialized", "Base"} =>
                        last.result = GetInitialBufferSet
        /\ last.call.acc = "GetInterfaceDescriptionBufferT" =>
                /\ last.result = GetInterfaceDescriptionBuffer(last.call.args[1])
                /\ last.result = GetInterfaceDescriptionBufferConst(last.call.args[1])
                /\ last.result = RoleSet(last.call.args[1])

\* The compile-time variant was called for Initial and returned the set the
\* run-time variant returns for a value that is none of the four roles.
C24_Witness ==
    /\ pc = "constructed"
    /\ last # NoCall
    /\ last.call = Call("GetInterfaceDescriptionBufferT", <<"Initial">>)
    /\ last.result = GetInterfaceDescriptionBuffer(OutOfRange)
    /\ last.result = SetRef("initial_")

(***************************************************************************)
(* GetFieldBuffer.                                                         *)
(***************************************************************************)
\* C25: GetFieldBuffer(field_type, field_index, buffer_type), const or not,
\* returns buffer field_index of the description set of role buffer_type for
\* Description, parameter buffer field_index for Parameters and state buffer
\* field_index for every other field type; for field types other than
\* Description the result is the same for every buffer_type; and it returns
\* a reference, never an error, whatever field_index is and whether or not
\* the interface-parameter model is active.
C25_FieldBufferDispatch ==
    (pc = "constructed" /\ last # NoCall /\ last.call.acc = "GetFieldBuffer") =>
        LET field_type == last.call.args[1]
            field_index == last.call.args[2]
            buffer_type == last.call.args[3]
        IN  /\ last.result.kind = "buffer"
            /\ field_type = "Description" =>
                    last.result = Subscript(RoleSet(buffer_type), field_index)
            /\ field_type = "Parameters" =>
                    last.result = Subscript(GetInterfaceParameterBufferSet, field_index)
            /\ field_type \notin {"Description", "Parameters"} =>
                    last.result = Subscript(GetInterfaceStateBufferSet, field_index)
            /\ field_type # "Description" =>
                    \A other \in InterfaceDescriptionBufferType \cup {OutOfRange} :
                        /\ GetFieldBuffer(field_type, field_index, other) = last.result
                        /\ GetFieldBufferConst(field_type, field_index, other) = last.result

\* With the interface-parameter model inactive GetFieldBuffer was asked for a
\* parameter buffer and returned a reference to a buffer the block does not hold.
C25_Witness ==
    /\ pc = "constructed"
    /\ ~InterfaceParameterModelActive
    /\ last # NoCall
    /\ last.call.acc = "GetFieldBuffer"
    /\ last.call.args[1] = "Parameters"
    /\ last.call.args[3] = "Reinitialized"
    /\ last.result.kind = "buffer"
    /\ ~Exists(block, last.result)

\* The cells of a buffer, or none when the block holds no such buffer.
CellsOf(blk, ref) ==
    IF Exists(blk, ref) THEN [c \in Cells |-> Read(blk, ref, c)] ELSE << >>

\* C26: in the checked build GetBuffer returns ten different buffers for its
\* ten identifiers, and a write through the buffer it returns for one
\* identifier leaves the cells of the buffer it returns for every other
\* identifier as they were, whatever was written before.
C26_CheckedGetBufferInjective ==
    [][(~PERFORMANCE /\ IsWrite) =>
            /\ \A id1, id2 \in InterfaceBlockBufferType :
                    id1 # id2 =>
                        /\ GetBuffer(id1).kind = "buffer"
                        /\ GetBuffer(id1) # GetBuffer(id2)
                        /\ GetBufferConst(id1) # GetBufferConst(id2)
            /\ \A id1 \in InterfaceBlockBufferType :
                    lastWrite'.through = GetBuffer(id1) =>
                        \A id2 \in InterfaceBlockBufferType \ {id1} :
                            CellsOf(block', GetBuffer(id2)) = CellsOf(block, GetBuffer(id2))]_vars

\* In a checked build the second write went to the buffer GetBuffer returns
\* for InterfaceStatePressureNegative, while a buffer it returns for another
\* identifier holds a negative value.
C26_Witness ==
    /\ ~PERFORMANCE
    /\ nwrites = MaxWrites
    /\ lastWrite # NoWrite
    /\ lastWrite.through = GetBuffer("InterfaceStatePressureNegative")
    /\ lastWrite.value # 0
    /\ \E id \in InterfaceBlockBufferType \ {"InterfaceStatePressureNegative"} :
           /\ Exists(block, GetBuffer(id))
           /\ \E c \in Cells : Read(block, GetBuffer(id), c) < 0

\* The buffer an identifier names, the same in every build.
NamedBuffer(id) ==
    BufferRef(IdentifierBuffer(id)[1], FieldIndex(IdentifierBuffer(id)[2]))

\* C27: for each of the ten enumerators GetBuffer, const or not, returns in
\* the checked build and in the performance build the same buffer, the one
\* the identifier names; for an identifier that is none of the ten the
\* checked build throws std::invalid_argument and the performance build
\* returns the surface-tension-coefficient parameter buffer.
C27_BuildsAgreeOnEnumerators ==
    (pc = "constructed" /\ last # NoCall /\ last.call.acc = "GetBuffer") =>
        LET id == last.call.args[1]
        IN  /\ id \in InterfaceBlockBufferType =>
                    /\ last.result = NamedBuffer(id)
                    /\ GetBuffer(id) = GetBufferConst(id)
            /\ id \notin InterfaceBlockBufferType =>
                    /\ PERFORMANCE =>
                            last.result = BufferRef("parameters_",
                                                    FieldIndex("SurfaceTensionCoefficient"))
                    /\ ~PERFORMANCE => last.result = Throw("invalid_argument")

\* In a performance build GetBuffer was called with
\* InterfaceParameterSurfaceTensionCoefficient, the enumerator whose case the
\* performance build replaces by the default branch, and returned a buffer.
C27_Witness ==
    /\ pc = "constructed"
    /\ PERFORMANCE
    /\ last # NoCall
    /\ last.call = Call("GetBuffer", <<"InterfaceParameterSurfaceTensionCoefficient">>)
    /\ last.result.kind = "buffer"
    /\ last.result.set = "parameters_"

(***************************************************************************)
(* The two overloads of every accessor.                                    *)
(***************************************************************************)
\* C28: for every accessor and all its arguments the const overload and the
\* non-const overload return the same thing: a reference to the same buffer,
\* a reference to the same buffer set, or the same error; and the step of an
\* accessor call, through either overload, changes no cell of any buffer.
C28_OverloadsAgree ==
    [][(pc = "constructed" /\ last' # NoCall) =>
            /\ Invoke(last'.call) = InvokeConst(last'.call)
            /\ last'.result = Invoke(last'.call)
            /\ (last'.result.kind = "throw") <=> (InvokeConst(last'.call).kind = "throw")
            /\ block' = block]_vars

\* The const GetInitialBuffer was called for the volume fraction on a block
\* built from a scalar above 0, whose base volume fraction is 1.
C28_Witness ==
    /\ Constructed("scalar")
    /\ ctor.levelset_initial > 0
    /\ last # NoCall
    /\ IsConstCall(last)
    /\ last.call = Call("GetInitialBuffer", <<"VolumeFraction">>)
    /\ last.result = BufferRef("initial_", FieldIndex("VolumeFraction"))
    /\ \A c \in Cells : block.base_[FieldIndex("VolumeFraction")][c] = 1

(***************************************************************************)
(* The two constructors on the same level-set.                             *)
(***************************************************************************)
\* The field that holds v in every cell.
Uniform(v) == [c \in Cells |-> v]

\* The block a constructor body builds on fresh storage.
Built(stmts) == Execute(RawBlock([c \in Cells |-> Untouched]), stmts)

\* Blocks A and B hold the same value in every cell of every buffer but the
\* base volume fraction.
AgreeButBaseVolumeFraction(A, B) ==
    /\ DOMAIN A = DOMAIN B
    /\ \A set \in MemberNames :
           /\ DOMAIN A[set] = DOMAIN B[set]
           /\ \A i \in DOMAIN A[set] :
                  (set # "base_" \/ i # FieldIndex("VolumeFraction")) => A[set][i] = B[set][i]

\* The block of variant A (from the uniform field of v) against the block of
\* variant B (from the scalar v).
VariantsCompare(A, B, v) ==
    /\ AgreeButBaseVolumeFraction(A, B)
    /\ \A c \in Cells :
           /\ A.base_[FieldIndex("VolumeFraction")][c] = 0
           /\ B.base_[FieldIndex("VolumeFraction")][c] = IF v > 0 THEN 1 ELSE 0
    /\ (A # B) <=> (v > 0)

\* C29: the block built from the uniform field F with F[c] = v and the block
\* built from the scalar v hold the same value in every cell of every buffer
\* except the base volume fraction, which is 0 in the first and, exactly
\* when v > 0, 1 in the second; for v <= 0 the two blocks are equal.
C29_ConstructorsOnUniformField ==
    /\ (Constructed("field") /\ \E v \in Vals : ctor.levelset_initial = Uniform(v)) =>
           LET v == ctor.levelset_initial[1]
           IN  VariantsCompare(block, Built(InterfaceBlockScalar(v)), v)
    /\ Constructed("scalar") =>
           LET v == ctor.levelset_initial
           IN  VariantsCompare(Built(InterfaceBlockField(Uniform(v))), block, v)

\* A block built from a uniform field above 0, with parameter buffers.
C29_Witness ==
    /\ Constructed("field")
    /\ InterfaceParameterModelActive
    /\ \E v \in Vals : v > 0 /\ ctor.levelset_initial = Uniform(v)

(***************************************************************************)
(* The weights as a convex combination.                                    *)
(***************************************************************************)
QNeg(x) == [x EXCEPT !.neg = ~x.neg]

\* x <= y, for numbers.
QLeq(x, y) ==
    /\ ~IsNaN(x)
    /\ ~IsNaN(y)
    /\ LET difference == QAdd(y, QNeg(x))
       IN  IsZero(difference) \/ ~difference.neg

====
